---- MODULE Spec2Model ----
(***************************************************************************)
(* Model of the trendFinder curation pipeline: QualityFilter.filterAndScore *)
(* -> ContentMixer.mix -> generateDraft (topic grouping) ->                 *)
(* HistoryStorage.saveDailyReport.                                          *)
(*                                                                          *)
(* Strings are sequences of code points, so that toLowerCase, the regular   *)
(* expression of generateFingerprint and trim are computed as the code      *)
(* computes them.  Only ASCII and the CJK block U+4E00..U+9FFF occur.       *)
(***************************************************************************)
EXTENDS Integers, Sequences, FiniteSets, TLC

VARIABLES
  pc,             \* position of the modelled caller (handleCron or a test)
  rules,          \* config/mixing-rules.json as loaded by the constructors
  today,          \* new Date().toISOString().split("T")[0], as a day number
  allStories,     \* handleCron: allStories, the argument of filterAndScore
  oracle,         \* the quality oracle's answer for each of allStories
  batchStart,     \* filterAndScore: loop variable `i`, first index of the batch
  settled,        \* positions of the current batch in the order their promises settled
  scoredSoFar,    \* filterAndScore: local `scoredStories`, filled batch by batch
  stories,        \* argument of ContentMixer.mix (handleCron: scoredStories)
  deduplicated,   \* mix: local `deduplicated`
  duplicatesRemoved, \* mix: local `duplicatesRemoved`
  ratio,          \* mix: local `ratio`
  mixed,          \* mix: result field `mixed`
  stats,          \* mix: result field `stats`
  topicOracle,    \* the topic oracle's answer to identifyTopics of this draft
  topics,         \* generateDraft: result field `topics`
  avgQualityScore, \* generateDraft: result field `avgQualityScore`
  comparison,     \* result of HistoricalComparison.compare called on its own
  db,             \* the SQLite tables of data/trendFinder.db
  reportId,       \* saveDailyReport: local `reportId`
  thrown,         \* the error saveDailyReport has thrown to its caller
  calls,          \* number of saveDailyReport calls started
  sourceConfig,   \* the parsed content of config/sources.json
  accountOracle   \* discoverAccounts: the evaluateAccount results of the last run

mixVars == <<stories, deduplicated, duplicatesRemoved, ratio, mixed, stats>>
filterVars == <<allStories, oracle, batchStart, settled, scoredSoFar>>
draftVars == <<topicOracle, topics, avgQualityScore, comparison>>
storeVars == <<db, reportId, thrown, calls, today>>
discoveryVars == <<sourceConfig, accountOracle>>
vars == <<pc, rules, filterVars, mixVars, draftVars, storeVars, discoveryVars>>

----------------------------------------------------------------------------
(* Bounds                                                                   *)

MaxBase == 2        \* longest fully enumerated story list
BulkBig == 30       \* stories per stream in the large generated inputs
MaxCalls == 3       \* saveDailyReport calls in one behaviour of the store
MaxDay == 2         \* calendar days the store is exercised on
MaxRaw == 3         \* raw stories entering one pipeline run
MaxFilterLen == 7   \* stories scored batch by batch (batches of 5)
CompareDay == 40    \* day number on which compare is called

----------------------------------------------------------------------------
(* Generic helpers                                                          *)

Min2(a, b) == IF a < b THEN a ELSE b
Max2(a, b) == IF a > b THEN a ELSE b

\* Math.round(n / d) for integers n >= 0, d > 0: nearest integer, halves up.
MathRound(n, d) == (2 * n + d) \div (2 * d)

\* Array.prototype.filter
Filter(s, P(_)) == SelectSeq(s, P)

\* Array.prototype.slice(0, n): a negative n counts from the end.
SliceFromStart(s, n) ==
  LET end == IF n < 0 THEN Max2(Len(s) + n, 0) ELSE Min2(n, Len(s))
  IN SubSeq(s, 1, end)

\* stories.reduce((acc, s) => acc + s.qualityScore.finalScore, 0), summed
\* over the index range lo..hi by halving (integer addition is associative).
RECURSIVE SumRange(_, _, _)
SumRange(s, lo, hi) ==
  IF lo > hi THEN 0
  ELSE IF lo = hi THEN s[lo].qualityScore.finalScore
  ELSE LET mid == (lo + hi) \div 2
       IN SumRange(s, lo, mid) + SumRange(s, mid + 1, hi)

SumScores(s) == SumRange(s, 1, Len(s))

\* Index (1-based) that element i of s takes in the stable descending order:
\* behind every element of higher finalScore and behind the earlier elements
\* of equal finalScore.
SortedPosition(s, i) ==
  Cardinality({j \in 1..Len(s) :
     \/ s[j].qualityScore.finalScore > s[i].qualityScore.finalScore
     \/ /\ s[j].qualityScore.finalScore = s[i].qualityScore.finalScore
        /\ j < i}) + 1

\* arr.sort((a, b) => b.qualityScore.finalScore - a.qualityScore.finalScore)
\* Array.prototype.sort is stable: equal scores keep their relative order.
SortByFinalScoreDesc(s) ==
  LET pos == [i \in 1..Len(s) |-> SortedPosition(s, i)]
  IN [k \in 1..Len(s) |-> s[CHOOSE i \in 1..Len(s) : pos[i] = k]]

----------------------------------------------------------------------------
(* ContentMixer.generateFingerprint                                         *)

IsUpper(c) == c >= 65 /\ c <= 90
IsWordChar(c) == \/ (c >= 97 /\ c <= 122) \/ (c >= 65 /\ c <= 90)
                 \/ (c >= 48 /\ c <= 57) \/ c = 95
IsSpace(c) == c \in {9, 10, 11, 12, 13, 32}
IsCJK(c) == c >= 19968 /\ c <= 40959

\* String.prototype.toLowerCase on the modelled code points
ToLowerCase(s) == [i \in 1..Len(s) |-> IF IsUpper(s[i]) THEN s[i] + 32 ELSE s[i]]

KeptByRegex(c) == IsWordChar(c) \/ IsSpace(c) \/ IsCJK(c)

\* .replace(/[^\w\s\u4e00-\u9fff]/g, "")
StripSpecial(s) == Filter(s, KeptByRegex)

RECURSIVE TrimLeft(_)
TrimLeft(s) ==
  IF s = <<>> THEN s ELSE IF IsSpace(Head(s)) THEN TrimLeft(Tail(s)) ELSE s

RECURSIVE TrimRight(_)
TrimRight(s) ==
  IF s = <<>> THEN s
  ELSE IF IsSpace(s[Len(s)]) THEN TrimRight(SubSeq(s, 1, Len(s) - 1)) ELSE s

\* String.prototype.trim
Trim(s) == TrimRight(TrimLeft(s))

\* crypto md5 digest: deterministic and (for the strings modelled) injective;
\* the digest of a string is represented by the tagged string itself.
Md5Hex(s) == <<"md5", s>>

\* generateFingerprint without the toLowerCase of line 153.
generateFingerprint_CaseSensitive(story) ==
  Md5Hex(Trim(StripSpecial(story.headline)))

generateFingerprint(story) ==
  Md5Hex(Trim(StripSpecial(ToLowerCase(story.headline))))

----------------------------------------------------------------------------
(* ContentMixer (unnamed/part_015)                                          *)

IsAccount(s) == s.source = "account"
IsSearch(s) == s.source = "search"

\* Position in `seen` of the entry with fingerprint fp, 0 when absent
\* (Map.has / Map.get; a Map keeps its keys in first-insertion order).
SeenIndex(seen, fp) ==
  LET hits == {i \in 1..Len(seen) : generateFingerprint(seen[i]) = fp}
  IN IF hits = {} THEN 0 ELSE CHOOSE i \in hits : TRUE

\* DedupStep with the comparison of line 137 inverted.
DedupStep_KeepLower(seen, story) ==
  LET j == SeenIndex(seen, generateFingerprint(story))
  IN IF j = 0 THEN Append(seen, story)
     ELSE IF story.qualityScore.finalScore < seen[j].qualityScore.finalScore
          THEN [seen EXCEPT ![j] = story]
          ELSE seen

\* One iteration of the for-loop of deduplicateStories.
DedupStep(seen, story) ==
  LET j == SeenIndex(seen, generateFingerprint(story))
  IN IF j = 0 THEN Append(seen, story)
     ELSE IF story.qualityScore.finalScore > seen[j].qualityScore.finalScore
          THEN [seen EXCEPT ![j] = story]
          ELSE seen

\* for (const story of stories) { ... }: the iterations lo..hi applied in
\* order to `seen` (the range is split in two to keep the evaluation shallow).
RECURSIVE DedupLoop(_, _, _, _)
DedupLoop(seen, input, lo, hi) ==
  IF lo > hi THEN seen
  ELSE IF lo = hi THEN DedupStep(seen, input[lo])
  ELSE LET mid == (lo + hi) \div 2
           firstHalf == DedupLoop(seen, input, lo, mid)
       IN IF Len(firstHalf) >= 0   \* evaluates firstHalf before going on
          THEN DedupLoop(firstHalf, input, mid + 1, hi)
          ELSE firstHalf

deduplicateStories(input) ==
  LET seen == DedupLoop(<<>>, input, 1, Len(input))
  IN [unique |-> seen, duplicates |-> Len(input) - Len(seen)]

\* ContentMixer.calculateAverageScore: Math.round(sum / length), 0 if empty
calculateAverageScore(s) ==
  IF Len(s) = 0 THEN 0 ELSE MathRound(SumScores(s), Len(s))

\* Math.round((accountAvg / total) * 100) in IEEE-754 double arithmetic.
\* accountAvg / total is rounded to a double before the multiplication.  For
\* integer averages 1..100 the result differs from the exact quotient
\* 100*accountAvg/total only when accountAvg/total = 23/40: the double product
\* is 57.49999999999999 and Math.round gives 57 where the exact 57.5 gives 58.
RatioPercent(accountAvg, total) ==
  IF 40 * accountAvg = 23 * total THEN 57
  ELSE MathRound(100 * accountAvg, total)

calculateDynamicRatio(accountStories, searchStories, r) ==
  IF ~r.dynamicRatio.enabled THEN [accountRatio |-> 50, searchRatio |-> 50]
  ELSE
    LET accountAvg == calculateAverageScore(accountStories)
        searchAvg == calculateAverageScore(searchStories)
    IN IF accountAvg > 0 /\ searchAvg > 0
       THEN LET raw == RatioPercent(accountAvg, accountAvg + searchAvg)
                clamped == Max2(r.dynamicRatio.accountsMin,
                                Min2(r.dynamicRatio.accountsMax, raw))
            IN [accountRatio |-> clamped, searchRatio |-> 100 - clamped]
       ELSE [accountRatio |-> 50, searchRatio |-> 50]

\* "Max 50 stories in final report"
MaxFinalStories == 50

\* applyRatio without the Math.min(stories.length, 50) of line 211.
applyRatio_NoCap(input, accountRatio, searchRatio) ==
  LET accountStories == Filter(input, IsAccount)
      searchStories == Filter(input, IsSearch)
      targetTotal == Len(input)
      targetAccounts == MathRound(targetTotal * accountRatio, 100)
      targetSearch == targetTotal - targetAccounts
  IN SliceFromStart(SortByFinalScoreDesc(accountStories), targetAccounts)
     \o SliceFromStart(SortByFinalScoreDesc(searchStories), targetSearch)

\* applyRatio with Math.floor in place of the Math.round of line 212.
applyRatio_Floor(input, accountRatio, searchRatio) ==
  LET accountStories == Filter(input, IsAccount)
      searchStories == Filter(input, IsSearch)
      targetTotal == Min2(Len(input), 50)
      targetAccounts == (targetTotal * accountRatio) \div 100
      targetSearch == targetTotal - targetAccounts
  IN SliceFromStart(SortByFinalScoreDesc(accountStories), targetAccounts)
     \o SliceFromStart(SortByFinalScoreDesc(searchStories), targetSearch)

\* applyRatio handing the places a short stream leaves empty to the other
\* stream.
applyRatio_Redistribute(input, accountRatio, searchRatio) ==
  LET accountStories == Filter(input, IsAccount)
      searchStories == Filter(input, IsSearch)
      targetTotal == Min2(Len(input), MaxFinalStories)
      targetAccounts == MathRound(targetTotal * accountRatio, 100)
      targetSearch == targetTotal - targetAccounts
      selectedAccounts ==
        SliceFromStart(SortByFinalScoreDesc(accountStories),
                       targetTotal - Min2(Len(searchStories), targetSearch))
      selectedSearch ==
        SliceFromStart(SortByFinalScoreDesc(searchStories),
                       targetTotal - Min2(Len(accountStories), targetAccounts))
  IN selectedAccounts \o selectedSearch

applyRatio(input, accountRatio, searchRatio) ==
  LET accountStories == Filter(input, IsAccount)
      searchStories == Filter(input, IsSearch)
      targetTotal == Min2(Len(input), MaxFinalStories)
      targetAccounts == MathRound(targetTotal * accountRatio, 100)
      targetSearch == targetTotal - targetAccounts
      selectedAccounts ==
        SliceFromStart(SortByFinalScoreDesc(accountStories), targetAccounts)
      selectedSearch ==
        SliceFromStart(SortByFinalScoreDesc(searchStories), targetSearch)
  IN selectedAccounts \o selectedSearch

\* MixResult with totalStories counting the deduplicated input.
MixResult_CountsInput(ded, rt, out) ==
  [deduplicated |-> ded.unique,
   duplicatesRemoved |-> ded.duplicates,
   ratio |-> rt,
   mixed |-> out,
   stats |-> [totalStories |-> Len(ded.unique),
              accountStories |-> Len(Filter(out, IsAccount)),
              searchStories |-> Len(Filter(out, IsSearch)),
              duplicatesRemoved |-> ded.duplicates,
              accountRatio |-> rt.accountRatio,
              searchRatio |-> rt.searchRatio,
              averageQuality |->
                [accounts |-> calculateAverageScore(Filter(out, IsAccount)),
                 search |-> calculateAverageScore(Filter(out, IsSearch)),
                 overall |-> calculateAverageScore(out)]]]

\* ContentMixer.mix, lines 100-117: the stats and the returned record, from
\* the locals `ded` (deduplication result), `rt` (ratio) and `out` (mixed).
MixResult(ded, rt, out) ==
  [deduplicated |-> ded.unique,
   duplicatesRemoved |-> ded.duplicates,
   ratio |-> rt,
   mixed |-> out,
   stats |-> [totalStories |-> Len(out),
              accountStories |-> Len(Filter(out, IsAccount)),
              searchStories |-> Len(Filter(out, IsSearch)),
              duplicatesRemoved |-> ded.duplicates,
              accountRatio |-> rt.accountRatio,
              searchRatio |-> rt.searchRatio,
              averageQuality |->
                [accounts |-> calculateAverageScore(Filter(out, IsAccount)),
                 search |-> calculateAverageScore(Filter(out, IsSearch)),
                 overall |-> calculateAverageScore(out)]]]

\* ContentMixer.mix, lines 93-98: apply the ratio, then sort the mixed list.
MixSelect(ded, rt) ==
  MixResult(ded, rt,
            SortByFinalScoreDesc(
              applyRatio(ded.unique, rt.accountRatio, rt.searchRatio)))

\* ContentMixer.mix, lines 86-90: the ratio of the deduplicated streams.
MixRatio(ded, r) ==
  MixSelect(ded, calculateDynamicRatio(Filter(ded.unique, IsAccount),
                                       Filter(ded.unique, IsSearch), r))

\* ContentMixer.mix: the returned record plus the locals it computes.
mix(input, r) ==
  MixRatio(IF r.deduplication.enabled THEN deduplicateStories(input)
           ELSE [unique |-> input, duplicates |-> 0], r)

----------------------------------------------------------------------------
(* Inputs of the ContentMixer                                               *)

\* "GPT-5 launches today", "gpt-5 launches today!!", "Claude 4 ships"
HeadlineGPT5 ==
  <<71, 80, 84, 45, 53, 32, 108, 97, 117, 110, 99, 104, 101, 115, 32,
    116, 111, 100, 97, 121>>
HeadlineGpt5Bang ==
  <<103, 112, 116, 45, 53, 32, 108, 97, 117, 110, 99, 104, 101, 115, 32,
    116, 111, 100, 97, 121, 33, 33>>
HeadlineClaude ==
  <<67, 108, 97, 117, 100, 101, 32, 52, 32, 115, 104, 105, 112, 115>>

Headlines == {HeadlineGPT5, HeadlineGpt5Bang, HeadlineClaude}
Sources == {"account", "search"}
BaseScores == {65, 80}
Dates == {1, 2}

\* A ScoredStory whose four sub-scores all equal `score` (so that the
\* weighted sum of scoreStory is `score` as well).
ScoredStory(headline, link, date, author, source, score) ==
  [headline |-> headline, link |-> link, date_posted |-> date,
   author |-> author, source |-> source,
   qualityScore |-> [relevance |-> score, quality |-> score,
                     novelty |-> score, impact |-> score,
                     finalScore |-> score]]

\* Story lists of length n; the link of a story is its position.
BaseLists(n) ==
  {[i \in 1..n |-> ScoredStory(c[i][1], i, c[i][2], "u1", c[i][3], c[i][4])] :
     c \in [1..n -> Headlines \X Dates \X Sources \X BaseScores]}

BaseInputs == UNION {BaseLists(n) : n \in 0..MaxBase}

\* Large inputs: nA account stories of score sA followed by nS search stories
\* of score sS, every headline a distinct CJK character.
BulkCounts == {0, 3, 10, BulkBig}
BulkScores == {<<90, 30>>, <<92, 68>>, <<80, 80>>}

BulkList(nA, sA, nS, sS) ==
  [i \in 1..(nA + nS) |->
     IF i <= nA THEN ScoredStory(<<19968 + i>>, i, 1, "u1", "account", sA)
     ELSE ScoredStory(<<19968 + i>>, i, 1, "u2", "search", sS)]

BulkInputs ==
  {BulkList(nA, sc[1], nS, sc[2]) :
     nA \in BulkCounts, nS \in BulkCounts, sc \in BulkScores}

\* config/mixing-rules.json (MixingRules of contentMixer and qualityFilter)
\* together with limits.maxTotalResults of config/search-queries.json.
Policy(enabled, accMin, accMax, dedup, scoreMin, maxTotal) ==
  [dynamicRatio |-> [enabled |-> enabled,
                     accountsMin |-> accMin, accountsMax |-> accMax,
                     searchMin |-> 100 - accMax, searchMax |-> 100 - accMin],
   deduplication |-> [enabled |-> dedup],
   qualityThreshold |-> [finalScoreMin |-> scoreMin],
   maxTotalResults |-> maxTotal]

\* The documented configuration is Policy(TRUE, 30, 70, TRUE, 75, 100).
Ranges == {<<30, 70>>, <<60, 80>>}
Policies ==
  {Policy(en, rg[1], rg[2], dd, 75, 100) :
     en \in BOOLEAN, rg \in Ranges, dd \in BOOLEAN}
  \cup {Policy(TRUE, 30, 70, TRUE, 75, 5)}

----------------------------------------------------------------------------
(* QualityFilter (unnamed/part_013)                                         *)

\* JavaScript values outside the integers and strings of the model: a
\* missing string property, a missing numeric property, and NaN.  The two
\* numeric ones are integers no score can take; they never enter arithmetic.
Undefined == "undefined"
UndefinedNumber == 0 - 1000002
NaN == 0 - 1000001

\* Answers of the quality oracle: the call fails (scoreStory returns null), or
\* the parsed JSON object `result`.
OracleFailure == [ok |-> FALSE]
OracleAnswer(r, q, n, i) ==
  [ok |-> TRUE, relevance |-> r, quality |-> q, novelty |-> n, impact |-> i]

IsNumber(x) == x # NaN /\ x # UndefinedNumber

\* result.relevance * 0.3 + result.quality * 0.3 + result.novelty * 0.2 +
\* result.impact * 0.2, then Math.round, in IEEE-754 double arithmetic.  The
\* exact value is (3r + 3q + 2n + 2i) / 10; FloatBelowHalf lists the answers
\* of the modelled domain whose double sum falls just below an exact half
\* (70, 87, 88, 74 gives 79.49999999999999), where Math.round rounds down.
FloatBelowHalf == {<<70, 87, 88, 74>>}

WeightedFinalScore(a) ==
  IF ~(IsNumber(a.relevance) /\ IsNumber(a.quality)
       /\ IsNumber(a.novelty) /\ IsNumber(a.impact))
  THEN NaN      \* undefined * 0.3 is NaN, Math.round(NaN) is NaN
  ELSE LET tenths == 3 * a.relevance + 3 * a.quality
                     + 2 * a.novelty + 2 * a.impact
       IN IF <<a.relevance, a.quality, a.novelty, a.impact>> \in FloatBelowHalf
          THEN tenths \div 10
          ELSE MathRound(tenths, 10)

\* QualityFilter.scoreStory with the oracle's answer a: the scored story
scoreStory(story, a) ==
  [headline |-> story.headline, link |-> story.link,
   date_posted |-> story.date_posted, author |-> story.author,
   source |-> story.source,
   qualityScore |-> [relevance |-> a.relevance, quality |-> a.quality,
                     novelty |-> a.novelty, impact |-> a.impact,
                     finalScore |-> WeightedFinalScore(a)]]

\* PassesThreshold without the comparison against finalScoreMin.
PassesThreshold_Unfiltered(score, finalScoreMin) == IsNumber(score)

\* s.qualityScore.finalScore >= finalScoreMin (false when either is NaN)
PassesThreshold(score, finalScoreMin) ==
  IsNumber(score) /\ IsNumber(finalScoreMin) /\ score >= finalScoreMin

\* filterAndScore keeping the stories whose scoring failed, with a default
\* score of 75 for each sub-score.
filterAndScore_DefaultScore(input, answers, r) ==
  LET scoredStories ==
        [k \in 1..Len(input) |->
           scoreStory(input[k], IF answers[k].ok THEN answers[k]
                                ELSE OracleAnswer(75, 75, 75, 75))]
      Pass(st) == PassesThreshold(st.qualityScore.finalScore,
                                  r.qualityThreshold.finalScoreMin)
  IN SortByFinalScoreDesc(Filter(scoredStories, Pass))

\* QualityFilter.filterAndScore: the batches of 5 are awaited in order and
\* Promise.allSettled keeps the order of each batch, so scoredStories holds
\* the fulfilled, non-null results in input order; then filter and sort.
filterAndScore(input, answers, r) ==
  LET okIdx == {i \in 1..Len(input) : answers[i].ok}
      n == Cardinality(okIdx)
      nth(k) == CHOOSE i \in okIdx : Cardinality({j \in okIdx : j < i}) = k - 1
      scoredStories == [k \in 1..n |-> scoreStory(input[nth(k)], answers[nth(k)])]
      Pass(st) == PassesThreshold(st.qualityScore.finalScore,
                                  r.qualityThreshold.finalScoreMin)
  IN SortByFinalScoreDesc(Filter(scoredStories, Pass))

\* const batchSize = 5
batchSize == 5

\* BatchPositions with every remaining story in one batch.
BatchPositions_WholeList(input, first) == (first + 1)..Len(input)

\* Positions (1-based) of the batch stories.slice(i, i + batchSize), i = first
BatchPositions(input, first) == (first + 1)..Min2(first + batchSize, Len(input))

\* Promise.allSettled whose result array would follow the order in which the
\* promises settled.
allSettled_SettleOrder(input, first, settledOrder) == settledOrder

\* await Promise.allSettled(batchPromises): once every promise has settled,
\* the results in the order of batchPromises, whatever order they settled in.
allSettled(input, first, settledOrder) ==
  [k \in 1..Cardinality(BatchPositions(input, first)) |-> first + k]

\* for (const result of batchResults): the fulfilled non-null values, pushed
\* in the order of batchResults (positions `results` of the input).
PushFulfilled(scored, input, answers, results) ==
  LET Fulfilled(p) == answers[p].ok
      kept == SelectSeq(results, Fulfilled)
  IN scored \o [k \in 1..Len(kept) |-> scoreStory(input[kept[k]], answers[kept[k]])]

\* Lines 85-90: the threshold filter and the sort of the collected stories
FilterAndSort(scored, r) ==
  LET Pass(st) == PassesThreshold(st.qualityScore.finalScore,
                                  r.qualityThreshold.finalScoreMin)
  IN SortByFinalScoreDesc(Filter(scored, Pass))

----------------------------------------------------------------------------
(* TopicClustering.groupStoriesByTopic and generateDraft                   *)

TopicInfo(id, name, summary, keywords) ==
  [id |-> id, name |-> name, summary |-> summary, keywords |-> keywords]

\* topicMap.set(topicInfo.id, {...}): a repeated id replaces the entry in place
RECURSIVE InitTopicMap(_, _)
InitTopicMap(tm, infos) ==
  IF infos = <<>> THEN tm
  ELSE LET t == Head(infos)
           entry == [id |-> t.id, name |-> t.name, summary |-> t.summary,
                     keywords |-> t.keywords, storyCount |-> 0,
                     stories |-> <<>>]
           hits == {k \in 1..Len(tm) : tm[k].id = t.id}
       IN InitTopicMap(IF hits = {} THEN Append(tm, entry)
                       ELSE [tm EXCEPT ![CHOOSE k \in hits : TRUE] = entry],
                       Tail(infos))

\* A property key of the assignments object is a string of decimal digits,
\* kept as the sequence of its digits: "0" is <<0>>, "00" is <<0, 0>>.
\* i.toString() of a story index
RECURSIVE DigitsOf(_)
DigitsOf(n) == IF n < 10 THEN <<n>> ELSE Append(DigitsOf(n \div 10), n % 10)

\* parseInt(indexStr) of a digit string: leading zeros are skipped
RECURSIVE DigitsValue(_)
DigitsValue(key) ==
  IF key = <<>> THEN 0
  ELSE 10 * DigitsValue(SubSeq(key, 1, Len(key) - 1)) + key[Len(key)]

parseInt(key) == IF key = <<>> THEN NaN ELSE DigitsValue(key)

\* An array-index key is the canonical decimal form of an integer
IsIndexKey(key) == key = DigitsOf(parseInt(key))

\* Object.entries(assignments): array-index keys in ascending numeric order,
\* then the other string keys in insertion order. `assignments` lists the
\* object's properties (distinct keys) in insertion order.
ObjectEntries(assignments) ==
  LET n == Len(assignments)
      before(j, i) ==
        IF IsIndexKey(assignments[j].key)
        THEN \/ ~IsIndexKey(assignments[i].key)
             \/ parseInt(assignments[j].key) < parseInt(assignments[i].key)
        ELSE ~IsIndexKey(assignments[i].key) /\ j < i
      pos == [i \in 1..n |-> Cardinality({j \in 1..n : before(j, i)}) + 1]
  IN [k \in 1..n |-> assignments[CHOOSE i \in 1..n : pos[i] = k]]

\* One callback of Object.entries(assignments).forEach; stories[index] is
\* element index + 1 here.
AssignStory(tm, input, a) ==
  IF parseInt(a.key) >= 0 /\ parseInt(a.key) < Len(input)
  THEN LET hits == {k \in 1..Len(tm) : tm[k].id = a.topicId}
       IN IF hits = {} THEN tm
          ELSE LET k == CHOOSE h \in hits : TRUE
               IN [tm EXCEPT ![k].stories = Append(@, input[parseInt(a.key) + 1]),
                             ![k].storyCount = @ + 1]
  ELSE tm

RECURSIVE AssignAll(_, _, _)
AssignAll(tm, input, assignments) ==
  IF assignments = <<>> THEN tm
  ELSE AssignAll(AssignStory(tm, input, Head(assignments)), input,
                 Tail(assignments))

\* The filter of groupStoriesByTopic keeping the topics without stories.
HasStories_KeepEmpty(t) == t.storyCount >= 0

\* .filter((topic) => topic.storyCount > 0)
HasStories(t) == t.storyCount > 0

\* .sort((a, b) => b.storyCount - a.storyCount), stable
SortByStoryCountDesc(ts) ==
  LET pos == [i \in 1..Len(ts) |->
                Cardinality({j \in 1..Len(ts) :
                   \/ ts[j].storyCount > ts[i].storyCount
                   \/ (ts[j].storyCount = ts[i].storyCount /\ j < i)}) + 1]
  IN [k \in 1..Len(ts) |-> ts[CHOOSE i \in 1..Len(ts) : pos[i] = k]]

groupStoriesByTopic(input, ta) ==
  SortByStoryCountDesc(
    Filter(AssignAll(InitTopicMap(<<>>, ta.topics), input,
                     ObjectEntries(ta.assignments)),
           HasStories))

\* The catch branch of identifyTopics: one topic "t1" holding every story
FallbackAssignments(input) ==
  [topics |-> <<TopicInfo("t1", "AI", "fallback", <<"AI">>)>>,
   assignments |-> [i \in 1..Len(input) |->
                      [key |-> DigitsOf(i - 1), topicId |-> "t1"]]]

\* stories.reduce((sum, s) => sum + (s.qualityScore?.finalScore || 75), 0)
RECURSIVE SumOr75(_)
SumOr75(s) ==
  IF s = <<>> THEN 0
  ELSE (IF Head(s).qualityScore.finalScore = 0
           \/ ~IsNumber(Head(s).qualityScore.finalScore)
        THEN 75
        ELSE Head(s).qualityScore.finalScore) + SumOr75(Tail(s))

\* A quotient kept exact: num / den
Fraction(num, den) == [num |-> num, den |-> den]

\* generateDraft(JSON.stringify(mixed)) with the topic oracle's answer `resp`:
\* "error" (the call throws: identifyTopics falls back), "malformed" (an
\* object without topics: groupStoriesByTopic throws, the outer catch returns
\* no topics and avgQualityScore 0), or a {topics, assignments} object.
generateDraft(input, resp) ==
  IF Len(input) = 0 THEN [topics |-> <<>>, avgQualityScore |-> Fraction(0, 1)]
  ELSE IF resp.kind = "malformed"
  THEN [topics |-> <<>>, avgQualityScore |-> Fraction(0, 1)]
  ELSE [topics |-> groupStoriesByTopic(input,
                     IF resp.kind = "error" THEN FallbackAssignments(input)
                     ELSE resp.value),
        avgQualityScore |-> Fraction(SumOr75(input), Len(input))]

----------------------------------------------------------------------------
(* HistoryStorage (src/services/storage/historyStorage.ts)                  *)

EmptyDb ==
  [daily_reports |-> <<>>, daily_stories |-> <<>>, daily_topics |-> <<>>,
   trending_topics |-> <<>>, account_activity |-> <<>>]

\* UniqueDateViolated for a date column that is not declared UNIQUE.
UniqueDateViolated_Missing(reports, date) == FALSE

\* daily_reports.date is declared TEXT NOT NULL UNIQUE
UniqueDateViolated(reports, date) ==
  \E k \in 1..Len(reports) : reports[k].date = date

\* better-sqlite3 accepts numbers, strings, bigints, buffers and null as
\* bound values; binding undefined throws.
Bindable(v) == v # Undefined

\* story.author || null
AuthorOrNull(a) == IF a = "" \/ a = Undefined THEN "null" ELSE a

\* story.qualityScore?.finalScore || null
\* (NULL is kept as 0 in the numeric column: 0 itself is stored as NULL)
ScoreOrNull(v) == IF v = NaN \/ v = UndefinedNumber THEN 0 ELSE v

RECURSIVE StoryTopicId(_, _)
\* storyToTopic.get(story.link) || null: the last topic listing the link wins
StoryTopicId(link, ts) ==
  IF ts = <<>> THEN "null"
  ELSE LET t == ts[Len(ts)]
       IN IF \E k \in 1..Len(t.stories) : t.stories[k].link = link
          THEN t.id
          ELSE StoryTopicId(link, SubSeq(ts, 1, Len(ts) - 1))

ReportRow(id, date, sts, ts, avg) ==
  [id |-> id, date |-> date, total_stories |-> Len(sts),
   quality_passed |-> Len(sts), avg_quality_score |-> avg,
   topic_count |-> Len(ts)]

StoryRows(id, sts, ts) ==
  [k \in 1..Len(sts) |->
     [report_id |-> id, headline |-> sts[k].headline, link |-> sts[k].link,
      author |-> AuthorOrNull(sts[k].author), date_posted |-> sts[k].date_posted,
      source |-> sts[k].source,
      quality_score |-> ScoreOrNull(sts[k].qualityScore.finalScore),
      topic_id |-> StoryTopicId(sts[k].link, ts)]]

TopicRows(id, ts) ==
  [k \in 1..Len(ts) |->
     [report_id |-> id, topic_id |-> ts[k].id, topic_name |-> ts[k].name,
      topic_summary |-> ts[k].summary, story_count |-> ts[k].storyCount,
      keywords |-> ts[k].keywords]]

\* HistoryStorage.calculateAvgQuality: sum / length (0 for no stories)
calculateAvgQuality(sts) ==
  IF Len(sts) = 0 THEN Fraction(0, 1) ELSE Fraction(SumScores(sts), Len(sts))

TrendingRows(date, ts) ==
  [k \in 1..Len(ts) |->
     [date |-> date, topic_name |-> ts[k].name, frequency |-> ts[k].storyCount,
      avg_quality |-> calculateAvgQuality(ts[k].stories)]]

HasAuthor(st) == st.author # Undefined /\ st.author # ""

\* accountStats: a Map keyed by author in first-occurrence order
ActivityRows(date, sts) ==
  LET withAuthor == Filter(sts, HasAuthor)
      firstIdx == {i \in 1..Len(withAuthor) :
                     \A j \in 1..(i - 1) : withAuthor[j].author # withAuthor[i].author}
      n == Cardinality(firstIdx)
      nth(k) == CHOOSE i \in firstIdx : Cardinality({j \in firstIdx : j < i}) = k - 1
      ByAuthor(a) == LET Same(st) == st.author = a IN Filter(withAuthor, Same)
  IN [k \in 1..n |->
        LET a == withAuthor[nth(k)].author
        IN [date |-> date, account |-> a, tweet_count |-> Len(ByAuthor(a)),
            avg_quality |-> Fraction(SumScores(ByAuthor(a)), Len(ByAuthor(a)))]]

\* A complete saveDailyReport(stories, topics, avgQualityScore) call on `date`:
\* the report row, then the story, topic, trending and activity rows
saveDailyReport(database, date, sts, ts, avg) ==
  [daily_reports |->
     Append(database.daily_reports,
            ReportRow(Len(database.daily_reports) + 1, date, sts, ts, avg)),
   daily_stories |->
     database.daily_stories
       \o StoryRows(Len(database.daily_reports) + 1, sts, ts),
   daily_topics |->
     database.daily_topics \o TopicRows(Len(database.daily_reports) + 1, ts),
   trending_topics |-> database.trending_topics \o TrendingRows(date, ts),
   account_activity |-> database.account_activity \o ActivityRows(date, sts)]

\* WHERE date >= date('now', '-N days'): dates are day numbers, `day` is now
InWindow(row, day, days) == row.date >= day - days

\* getHistoricalData(days): SELECT * FROM daily_reports WHERE ... ORDER BY
\* date DESC (dates are unique)
getHistoricalData(database, day, days) ==
  LET Recent(row) == InWindow(row, day, days)
      rows == Filter(database.daily_reports, Recent)
      pos == [i \in 1..Len(rows) |->
                Cardinality({j \in 1..Len(rows) : rows[j].date > rows[i].date}) + 1]
  IN [k \in 1..Len(rows) |-> rows[CHOOSE i \in 1..Len(rows) : pos[i] = k]]

RECURSIVE SumFrequency(_)
SumFrequency(rows) ==
  IF rows = <<>> THEN 0 ELSE Head(rows).frequency + SumFrequency(Tail(rows))

RECURSIVE SumTweetCount(_)
SumTweetCount(rows) ==
  IF rows = <<>> THEN 0 ELSE Head(rows).tweet_count + SumTweetCount(Tail(rows))

\* getTrendingTopics(days): SUM(frequency) ... GROUP BY topic_name.  compare
\* turns the rows into a Map keyed by topic_name, so the result is kept as
\* the function topic_name -> total_frequency.
getTrendingTopics(database, day, days) ==
  LET Recent(row) == InWindow(row, day, days)
      rows == Filter(database.trending_topics, Recent)
  IN [name \in {rows[k].topic_name : k \in 1..Len(rows)} |->
        LET Named(row) == row.topic_name = name
        IN SumFrequency(Filter(rows, Named))]

\* getAccountActivity(days): SUM(tweet_count) ... GROUP BY account, kept as
\* the function account -> total_tweets
getAccountActivity(database, day, days) ==
  LET Recent(row) == InWindow(row, day, days)
      rows == Filter(database.account_activity, Recent)
  IN [account \in {rows[k].account : k \in 1..Len(rows)} |->
        LET Of(row) == row.account = account
        IN SumTweetCount(Filter(rows, Of))]

----------------------------------------------------------------------------
(* HistoricalComparison (src/services/analysis/historicalComparison.ts)     *)

\* map.get(key) || 0
MapGetOr0(map, key) == IF key \in DOMAIN map THEN map[key] ELSE 0

\* The label of a rule that reads the 7-day window only.
TopicTrend_SevenDaysOnly(storyCount, historicalFrequency7, historicalFrequency30) ==
  IF historicalFrequency7 = 0 THEN "new"
  ELSE IF 7 * storyCount > historicalFrequency7 THEN "hot"
  ELSE IF 7 * storyCount < historicalFrequency7 THEN "cooling"
  ELSE "stable"

\* The trend of analyzeTopicTrends.  storyCount > historicalFrequency7 / 7 is
\* a comparison of doubles; for integers of this size it agrees with the
\* exact comparison 7 * storyCount > historicalFrequency7.
TopicTrend(storyCount, historicalFrequency7, historicalFrequency30) ==
  IF historicalFrequency7 = 0 /\ historicalFrequency30 = 0 THEN "new"
  ELSE IF 7 * storyCount > historicalFrequency7 THEN "hot"
  ELSE IF 7 * storyCount < historicalFrequency7 THEN "cooling"
  ELSE "stable"

TopicTrendEntry(topic, historicalFrequency7, historicalFrequency30) ==
  [name |-> topic.name,
   currentFrequency |-> topic.storyCount,
   historicalFrequency |-> historicalFrequency7,
   trend |-> TopicTrend(topic.storyCount, historicalFrequency7,
                        historicalFrequency30)]

analyzeTopicTrends(currentTopics, trendingTopics7Days, trendingTopics30Days) ==
  [k \in 1..Len(currentTopics) |->
     TopicTrendEntry(currentTopics[k],
                     MapGetOr0(trendingTopics7Days, currentTopics[k].name),
                     MapGetOr0(trendingTopics30Days, currentTopics[k].name))]

NamesOf(entries) == [k \in 1..Len(entries) |-> entries[k].name]

classifyTrendingTopics(topicTrends) ==
  LET IsNew(t) == t.trend = "new"
      IsContinuing(t) == t.trend \in {"hot", "stable"}
      IsDeclining(t) == t.trend = "cooling"
  IN [new |-> NamesOf(Filter(topicTrends, IsNew)),
      continuing |-> NamesOf(Filter(topicTrends, IsContinuing)),
      declining |-> NamesOf(Filter(topicTrends, IsDeclining))]

\* currentActivity: a Map author -> count in first-occurrence order, over the
\* stories whose author is truthy
CurrentActivity(currentStories) ==
  LET withAuthor == Filter(currentStories, HasAuthor)
      firstIdx == {i \in 1..Len(withAuthor) :
                     \A j \in 1..(i - 1) : withAuthor[j].author # withAuthor[i].author}
      nth(k) == CHOOSE i \in firstIdx : Cardinality({j \in firstIdx : j < i}) = k - 1
  IN [k \in 1..Cardinality(firstIdx) |->
        [account |-> withAuthor[nth(k)].author,
         tweetCount |->
           Cardinality({j \in 1..Len(withAuthor) :
                          withAuthor[j].author = withAuthor[nth(k)].author})]]

\* ActivityChange with a change of 0 for an account without history.
ActivityChange_NoHistoryZero(count, totalTweets) ==
  IF totalTweets > 0 THEN Fraction(100 * (7 * count - totalTweets), totalTweets)
  ELSE Fraction(0, 1)

\* change = historicalAvg > 0 ? ((count - historicalAvg) / historicalAvg) * 100
\* : 100 with historicalAvg = total_tweets / 7, kept exact:
\* 100 * (7 * count - total) / total
ActivityChange(count, totalTweets) ==
  IF totalTweets > 0 THEN Fraction(100 * (7 * count - totalTweets), totalTweets)
  ELSE Fraction(100, 1)

\* a < b for quotients with positive denominators
FractionLess(a, b) == a.num * b.den < b.num * a.den

\* .sort((a, b) => b.tweetCount - a.tweetCount), stable
SortByTweetCountDesc(as) ==
  LET pos == [i \in 1..Len(as) |->
                Cardinality({j \in 1..Len(as) :
                   \/ as[j].tweetCount > as[i].tweetCount
                   \/ (as[j].tweetCount = as[i].tweetCount /\ j < i)}) + 1]
  IN [k \in 1..Len(as) |-> as[CHOOSE i \in 1..Len(as) : pos[i] = k]]

\* .sort((a, b) => b.change - a.change), stable
SortByChangeDesc(as) ==
  LET pos == [i \in 1..Len(as) |->
                Cardinality({j \in 1..Len(as) :
                   \/ FractionLess(as[i].change, as[j].change)
                   \/ (~FractionLess(as[j].change, as[i].change) /\ j < i)}) + 1]
  IN [k \in 1..Len(as) |-> as[CHOOSE i \in 1..Len(as) : pos[i] = k]]

\* The filter of `rising` with the threshold at 20 in place of 50
ChangeAbove50_Above20(a) == FractionLess(Fraction(20, 1), a.change)

\* .filter((a) => a.change > 50)
ChangeAbove50(a) == FractionLess(Fraction(50, 1), a.change)

\* Array.prototype.sort sorts activityWithChange in place: `rising` filters
\* the array already ordered by tweetCount.
ActivityLists(sortedByCount) ==
  [mostActive |-> SliceFromStart(sortedByCount, 10),
   rising |-> SliceFromStart(SortByChangeDesc(Filter(sortedByCount, ChangeAbove50)), 5)]

analyzeAccountActivity(currentStories, accountActivity7Days) ==
  ActivityLists(SortByTweetCountDesc(
    [k \in 1..Len(CurrentActivity(currentStories)) |->
       [account |-> CurrentActivity(currentStories)[k].account,
        tweetCount |-> CurrentActivity(currentStories)[k].tweetCount,
        change |-> ActivityChange(
                     CurrentActivity(currentStories)[k].tweetCount,
                     MapGetOr0(accountActivity7Days,
                               CurrentActivity(currentStories)[k].account))]]))

\* history.reduce((sum, h) => sum + h.avg_quality_score, 0), kept exact
RECURSIVE SumAvgQuality(_)
SumAvgQuality(rows) ==
  IF rows = <<>> THEN Fraction(0, 1)
  ELSE LET rest == SumAvgQuality(Tail(rows))
           a == Head(rows).avg_quality_score
       IN Fraction(a.num * rest.den + rest.num * a.den, a.den * rest.den)

\* sum / history.length, or currentScore for an empty history
MeanQuality(history, currentScore) ==
  IF Len(history) > 0
  THEN Fraction(SumAvgQuality(history).num,
                SumAvgQuality(history).den * Len(history))
  ELSE currentScore

\* currentScore > avg7Days + 2 in IEEE-754 double arithmetic.  The doubles
\* agree with the exact quotients over the modelled histories except here:
\* seven or eight rows of 257/3 sum and divide to 85.66666666666666, one ulp
\* below the double of 257/3, so that 263/3 = 87.66666666666667 is greater
\* than avg7Days + 2 = 87.66666666666666 although it exceeds the exact mean
\* by exactly 2.
FloatAboveBand(currentScore, history7Days) ==
  /\ currentScore = Fraction(263, 3)
  /\ Len(history7Days) \in {7, 8}
  /\ \A k \in 1..Len(history7Days) :
       history7Days[k].avg_quality_score = Fraction(257, 3)

QualityTrend(currentScore, avg7Days, aboveInDoubles) ==
  IF aboveInDoubles
     \/ FractionLess(Fraction(avg7Days.num + 2 * avg7Days.den, avg7Days.den),
                     currentScore)
  THEN "rising"
  ELSE IF FractionLess(currentScore,
                       Fraction(avg7Days.num - 2 * avg7Days.den, avg7Days.den))
  THEN "declining"
  ELSE "stable"

analyzeQualityTrends(currentScore, history7Days, history30Days) ==
  [current |-> MathRound(currentScore.num, currentScore.den),
   average7Days |-> MathRound(MeanQuality(history7Days, currentScore).num,
                              MeanQuality(history7Days, currentScore).den),
   average30Days |-> MathRound(MeanQuality(history30Days, currentScore).num,
                               MeanQuality(history30Days, currentScore).den),
   trend |-> QualityTrend(currentScore,
                          MeanQuality(history7Days, currentScore),
                          FloatAboveBand(currentScore, history7Days))]

\* HistoricalComparison.compare on the database `database` read on day `day`
\* (the summary text is left out)
compare(currentTopics, currentStories, currentScore, database, day) ==
  [trendingTopics |->
     classifyTrendingTopics(
       analyzeTopicTrends(currentTopics, getTrendingTopics(database, day, 7),
                          getTrendingTopics(database, day, 30))),
   accountActivity |->
     analyzeAccountActivity(currentStories, getAccountActivity(database, day, 7)),
   qualityTrends |->
     analyzeQualityTrends(currentScore, getHistoricalData(database, day, 7),
                          getHistoricalData(database, day, 30)),
   topicTrends |->
     analyzeTopicTrends(currentTopics, getTrendingTopics(database, day, 7),
                        getTrendingTopics(database, day, 30))]

----------------------------------------------------------------------------
(* Inputs of the pipeline and of the store                                  *)

\* A raw story as scrapeSources (no `source` property) or searchAIContent
\* (source "search") builds it.
RawStory(headline, link, date, author, source) ==
  [headline |-> headline, link |-> link, date_posted |-> date,
   author |-> author, source |-> source]

\* The raw stories of the model: one of a tracked account (scrapeSources sets
\* no source) and two search results, one of them with the headline of the
\* account story in another case and punctuation.
RawKinds ==
  {<<HeadlineGPT5, "u1", Undefined>>,
   <<HeadlineGpt5Bang, "u2", "search">>,
   <<HeadlineClaude, "u3", "search">>}

RawLists(n) ==
  {[i \in 1..n |-> RawStory(c[i][1], i, 1, c[i][2], c[i][3])] :
     c \in [1..n -> RawKinds]}

RawInputs == UNION {RawLists(n) : n \in 0..MaxRaw}

OracleAnswers ==
  {OracleFailure,
   OracleAnswer(80, 80, 80, 80),
   OracleAnswer(70, 70, 70, 70),
   OracleAnswer(70, 87, 88, 74),
   OracleAnswer(90, UndefinedNumber, 80, 80)}

\* Inputs of filterAndScore run batch by batch: n search results with
\* distinct one-character headlines, link = position, date_posted
\* alternating between day 2 and day 1.
FilterInput(n) ==
  [k \in 1..n |-> RawStory(<<19968 + k>>, k, (k % 2) + 1, "u2", "search")]

\* Per-story answers of the quality oracle for n stories: all equal; two
\* scores alternating; and one with a failed call, a missing sub-score and
\* the sub-scores 70, 87, 88, 74.
FilterOracles(n) ==
  {[k \in 1..n |-> OracleAnswer(80, 80, 80, 80)],
   [k \in 1..n |-> IF k % 3 = 0 THEN OracleAnswer(90, 90, 90, 90)
                    ELSE OracleAnswer(80, 80, 80, 80)],
   [k \in 1..n |-> IF k = 1 THEN OracleAnswer(70, 87, 88, 74)
                    ELSE IF k = 2 THEN OracleFailure
                    ELSE IF k = 3 THEN OracleAnswer(90, UndefinedNumber, 80, 80)
                    ELSE OracleAnswer(80, 80, 80, 80)]}

\* Answers of the topic oracle for n stories
TopicResponses(n) ==
  {[kind |-> "error"], [kind |-> "malformed"],
   [kind |-> "ok",
    value |-> [topics |-> <<TopicInfo("t1", "Agents", "about agents", <<"agent">>),
                            TopicInfo("t2", "Models", "about models", <<"llm">>)>>,
               assignments |-> [i \in 1..n |->
                  [key |-> DigitsOf(i - 1),
                   topicId |-> IF i % 2 = 1 THEN "t2" ELSE "t1"]]]],
   [kind |-> "ok",
    value |-> [topics |-> <<TopicInfo("t1", "Agents", Undefined, <<"agent">>)>>,
               assignments |-> [i \in 1..n |->
                  [key |-> DigitsOf(i - 1), topicId |-> "t1"]]]],
   [kind |-> "ok",
    value |-> [topics |-> <<TopicInfo("t1", "Agents", "about agents", <<"agent">>),
                            TopicInfo("t2", "Models", "about models", <<"llm">>)>>,
               assignments |-> <<[key |-> <<0>>, topicId |-> "t1"],
                                 [key |-> <<1>>, topicId |-> "t9"],
                                 [key |-> DigitsOf(n + 2), topicId |-> "t2"]>>]],
   [kind |-> "ok",
    value |-> [topics |-> <<TopicInfo("t1", "Agents", "about agents", <<"agent">>),
                            TopicInfo("t2", "Models", "about models", <<"llm">>)>>,
               assignments |-> <<[key |-> <<0, 0>>, topicId |-> "t2"],
                                 [key |-> <<1>>, topicId |-> "t1"],
                                 [key |-> <<0>>, topicId |-> "t1"]>>]]}

\* Stories of one day for the comparison: authors and final scores by position
CompareStories(authors, scores) ==
  [k \in 1..Len(authors) |->
     ScoredStory(<<19968 + k>>, k, 1, authors[k], "account", scores[k])]

HighDay == CompareStories(<<"u1", "u1", "u2">>, <<87, 88, 88>>)
ManyAuthors ==
  CompareStories(<<"u1", "u2", "u3", "u4", "u5", "u6", "u1">>,
                 <<80, 80, 80, 80, 80, 80, 80>>)
Anonymous == CompareStories(<<"u1", Undefined>>, <<82, 78>>)
SteadyDay == CompareStories(<<"u1", "u1", "u1">>, <<85, 86, 86>>)
LowDay == CompareStories(<<"u2", "u2", "u3">>, <<83, 84, 84>>)
SingleStory == CompareStories(<<"u1">>, <<80>>)

CompareStoryLists == {HighDay, ManyAuthors, Anonymous, SteadyDay, LowDay}

\* The topic oracle's answer on the earlier days: two topics, stories
\* assigned in turn
AlternatingTopics(n) ==
  [kind |-> "ok",
   value |-> [topics |-> <<TopicInfo("t1", "Agents", "about agents", <<"agent">>),
                           TopicInfo("t2", "Models", "about models", <<"llm">>)>>,
              assignments |-> [i \in 1..n |->
                 [key |-> DigitsOf(i - 1),
                  topicId |-> IF i % 2 = 1 THEN "t2" ELSE "t1"]]]]

\* The database after one more complete run with the stories sts on `date`
HistoryDay(database, date, sts) ==
  saveDailyReport(database, date, sts,
                  generateDraft(sts, AlternatingTopics(Len(sts))).topics,
                  generateDraft(sts, AlternatingTopics(Len(sts))).avgQualityScore)

\* One run a day with the same stories from firstDate to lastDate
RECURSIVE HistoryRun(_, _, _, _)
HistoryRun(database, sts, firstDate, lastDate) ==
  IF firstDate > lastDate THEN database
  ELSE HistoryRun(HistoryDay(database, firstDate, sts), sts, firstDate + 1,
                  lastDate)

\* Databases read by compare on `day`: empty; 1, 6 or 7 days up to the day
\* before; the 8 days day-7..day; one run at the edge of the 7-day window,
\* just outside it, at the edge of the 30-day window and just outside it;
\* and two days with different stories.
CompareHistories(day) ==
  {EmptyDb, HistoryDay(HistoryDay(EmptyDb, day - 2, HighDay), day - 1, SteadyDay)}
  \cup {HistoryRun(EmptyDb, sts, day - k, day - 1) :
          sts \in {SteadyDay, SingleStory}, k \in {1, 6, 7}}
  \cup {HistoryRun(EmptyDb, sts, day - 7, day) : sts \in {SteadyDay, SingleStory}}
  \cup {HistoryRun(EmptyDb, sts, day - k, day - k) :
          sts \in {SteadyDay, SingleStory}, k \in {8, 30, 31}}

\* Final story lists handed to saveDailyReport in the store's own behaviours
StoreStories ==
  {<<>>,
   <<ScoredStory(HeadlineGPT5, 1, 1, "u1", "account", 80)>>,
   <<ScoredStory(HeadlineGPT5, 1, 1, "u1", "account", 80),
     ScoredStory(HeadlineClaude, 2, 1, "u2", "search", 90)>>}

PipelinePolicies ==
  {Policy(TRUE, 30, 70, TRUE, 75, 100), Policy(TRUE, 30, 70, FALSE, 0, 100)}

----------------------------------------------------------------------------
(* AccountDiscovery (unnamed/part_014)                                      *)

\* config/mixing-rules.json, "discoveryRules"
discoveryRules ==
  [minQualityScore |-> 80, minContentCount |-> 3, autoAddThreshold |-> 90]

\* Usernames are strings of code points; a story without author (undefined
\* or "", both falsy) has the empty one.
HasUsername(st) == st.author # <<>>

\* author.replace("@", ""): the first "@" is removed
RECURSIVE RemoveFirstAt(_)
RemoveFirstAt(s) ==
  IF s = <<>> THEN s
  ELSE IF Head(s) = 64 THEN Tail(s)
  ELSE <<Head(s)>> \o RemoveFirstAt(Tail(s))

\* extractAuthors: a Map username -> count, keys in first-insertion order
\* and compared as they are written
extractAuthors(sts) ==
  LET withAuthor == Filter(sts, HasUsername)
      names == [i \in 1..Len(withAuthor) |-> RemoveFirstAt(withAuthor[i].author)]
      firstIdx == {i \in 1..Len(names) : \A j \in 1..(i - 1) : names[j] # names[i]}
      nth(k) == CHOOSE i \in firstIdx : Cardinality({j \in firstIdx : j < i}) = k - 1
  IN [k \in 1..Cardinality(firstIdx) |->
        [username |-> names[nth(k)],
         count |-> Cardinality({j \in 1..Len(names) : names[j] = names[nth(k)]})]]

\* new Set(list.map((s) => s.username.toLowerCase()))
LowerUsernames(list) == {ToLowerCase(list[k].username) : k \in 1..Len(list)}

\* Results of the evaluateAccount call: the request throws, or the parsed
\* JSON object `result`
EvaluationFailure == [ok |-> FALSE]
Evaluation(isRelevant, qualityScore) ==
  [ok |-> TRUE, isRelevant |-> isRelevant, qualityScore |-> qualityScore]

\* evaluateAccount returns an evaluation (not null)
Evaluated(a) ==
  /\ a.ok
  /\ a.isRelevant
  /\ a.qualityScore >= discoveryRules.minQualityScore

\* The authors that discoverAccounts hands to evaluateAccount: not tracked,
\* not a candidate, enough stories, the first 10
AuthorsToEvaluate(config, searchStories) ==
  LET IsNew(a) ==
        /\ ToLowerCase(a.username) \notin LowerUsernames(config.sources)
        /\ ToLowerCase(a.username) \notin LowerUsernames(config.candidates)
      Qualified(a) == a.count >= discoveryRules.minContentCount
  IN SliceFromStart(Filter(Filter(extractAuthors(searchStories), IsNew),
                           Qualified), 10)

\* The entry pushed for a candidate (url, category, dates and reason left out)
AccountEntry(username, qualityScore) ==
  [username |-> username, qualityScore |-> qualityScore]

\* discoverAccounts: the content of sources.json after the call; answers[k]
\* is the result of evaluating the k-th author handed to evaluateAccount.
discoverAccounts(config, searchStories, answers) ==
  IF searchStories = <<>> THEN config
  ELSE LET authors == AuthorsToEvaluate(config, searchStories)
           results == [k \in 1..Len(authors) |->
                         [username |-> authors[k].username, answer |-> answers[k]]]
           Passed(r) ==
             /\ Evaluated(r.answer)
             /\ r.answer.qualityScore >= discoveryRules.minQualityScore
           AutoAdd(r) ==
             r.answer.qualityScore >= discoveryRules.autoAddThreshold
           ForReview(r) == ~AutoAdd(r)
           candidates == Filter(results, Passed)
           Entries(rs) ==
             [k \in 1..Len(rs) |->
                AccountEntry(rs[k].username, rs[k].answer.qualityScore)]
       IN [sources |-> config.sources \o Entries(Filter(candidates, AutoAdd)),
           candidates |->
             config.candidates \o Entries(Filter(candidates, ForReview))]

----------------------------------------------------------------------------
(* State machine                                                            *)

NoStats == [totalStories |-> 0]
NoRatio == [accountRatio |-> 0, searchRatio |-> 0]
NoError == "none"

MixIdle ==
  /\ deduplicated = <<>>
  /\ duplicatesRemoved = 0
  /\ ratio = NoRatio
  /\ mixed = <<>>
  /\ stats = NoStats

BatchIdle == batchStart = 0 /\ settled = <<>> /\ scoredSoFar = <<>>

FilterIdle == allStories = <<>> /\ oracle = <<>> /\ BatchIdle

NoTopicOracle == [kind |-> "none"]

\* compare has not been called.  Inside generateDraft the comparison only
\* feeds the report text, which is not part of the state.
NoComparison == [kind |-> "none"]

\* clusterStories is reached, and the oracle asked, only for a non-empty list
OracleAsked(input, resp) == IF Len(input) = 0 THEN NoTopicOracle ELSE resp

DraftIdle ==
  /\ topicOracle = NoTopicOracle
  /\ topics = <<>>
  /\ avgQualityScore = Fraction(0, 1)
  /\ comparison = NoComparison

\* config/sources.json without accounts; discoverAccounts has not run
EmptySourceConfig == [sources |-> <<>>, candidates |-> <<>>]

DiscoveryIdle == sourceConfig = EmptySourceConfig /\ accountOracle = <<>>

StoreIdle ==
  /\ db = EmptyDb
  /\ reportId = 0
  /\ thrown = NoError
  /\ calls = 0
  /\ today = 1

\* handleCron step 4: qualityFilter.filterAndScore(allStories)
FilterAndScore ==
  /\ pc = "filter"
  /\ \E answers \in [1..Len(allStories) -> OracleAnswers] :
       /\ oracle' = answers
       /\ stories' = filterAndScore(allStories, answers, rules)
  /\ pc' = "mix"
  /\ UNCHANGED <<rules, discoveryVars, allStories, batchStart, settled, scoredSoFar,
                 deduplicated, duplicatesRemoved, ratio,
                 mixed, stats, draftVars, storeVars>>

\* filterAndScore, loop head with stories left: batch.map(scoreStory) starts
\* the calls of the next batch.
StartBatch ==
  /\ pc = "batch"
  /\ batchStart < Len(allStories)
  /\ settled' = <<>>
  /\ pc' = "await"
  /\ UNCHANGED <<rules, discoveryVars, allStories, oracle, batchStart, scoredSoFar, mixVars,
                 draftVars, storeVars>>

\* One scoreStory promise of the batch settles; any pending one may be next.
Settle ==
  /\ pc = "await"
  /\ \E p \in BatchPositions(allStories, batchStart) :
       /\ \A k \in 1..Len(settled) : settled[k] # p
       /\ settled' = Append(settled, p)
  /\ UNCHANGED <<pc, rules, discoveryVars, allStories, oracle, batchStart, scoredSoFar,
                 mixVars, draftVars, storeVars>>

\* Promise.allSettled resolves when the whole batch has settled; the loop
\* body pushes the results, the rate-limit pause passes, i += batchSize.
CollectBatch ==
  /\ pc = "await"
  /\ Len(settled) = Cardinality(BatchPositions(allStories, batchStart))
  /\ scoredSoFar' = PushFulfilled(scoredSoFar, allStories, oracle,
                                  allSettled(allStories, batchStart, settled))
  /\ batchStart' = batchStart + batchSize
  /\ pc' = "batch"
  /\ UNCHANGED <<rules, discoveryVars, allStories, oracle, settled, mixVars, draftVars,
                 storeVars>>

\* filterAndScore after the loop: filter, sort, return to the caller.
FilterSortReturn ==
  /\ pc = "batch"
  /\ batchStart >= Len(allStories)
  /\ stories' = FilterAndSort(scoredSoFar, rules)
  /\ pc' = "mix"
  /\ UNCHANGED <<rules, discoveryVars, filterVars, deduplicated, duplicatesRemoved, ratio,
                 mixed, stats, draftVars, storeVars>>

\* The locals of mix and its result as the caller sees them
MixReturns(m) ==
  /\ deduplicated' = m.deduplicated
  /\ duplicatesRemoved' = m.duplicatesRemoved
  /\ ratio' = m.ratio
  /\ mixed' = m.mixed
  /\ stats' = m.stats

\* handleCron step 5 / a direct call of ContentMixer.mix(stories)
Mix ==
  /\ pc = "mix"
  /\ MixReturns(mix(stories, rules))
  /\ pc' = "draft"
  /\ UNCHANGED <<rules, discoveryVars, stories, filterVars, draftVars, storeVars>>

\* handleCron step 7: generateDraft(JSON.stringify(mixed))
GenerateDraft ==
  /\ pc = "draft"
  /\ \E resp \in TopicResponses(Len(mixed)) :
       LET d == generateDraft(mixed, resp)
       IN /\ topicOracle' = OracleAsked(mixed, resp)
          /\ topics' = d.topics
          /\ avgQualityScore' = d.avgQualityScore
          /\ comparison' = NoComparison
  /\ pc' = "save_report"
  /\ calls' = calls + 1
  /\ UNCHANGED <<rules, discoveryVars, filterVars, mixVars, db, reportId, thrown, today>>

\* saveDailyReport returning at once, with nothing written, for a day
\* without stories.
SaveInsertReport_SkipsEmptyDay ==
  /\ pc = "save_report"
  /\ IF mixed = <<>>
     THEN /\ pc' = "saved"
          /\ UNCHANGED <<db, reportId, thrown>>
     ELSE LET id == Len(db.daily_reports) + 1
          IN /\ db' = [db EXCEPT !.daily_reports =
                         Append(@, ReportRow(id, today, mixed, topics,
                                             avgQualityScore))]
             /\ reportId' = id
             /\ pc' = "save_stories"
             /\ UNCHANGED thrown
  /\ UNCHANGED <<rules, discoveryVars, filterVars, mixVars, draftVars, calls, today>>

\* saveDailyReport, first statement: INSERT INTO daily_reports.  The UNIQUE
\* constraint on date makes the statement throw; the catch block rethrows.
SaveInsertReport ==
  /\ pc = "save_report"
  /\ IF UniqueDateViolated(db.daily_reports, today)
     THEN /\ pc' = "failed"
          /\ thrown' = "SQLITE_CONSTRAINT_UNIQUE"
          /\ UNCHANGED <<db, reportId>>
     ELSE LET id == Len(db.daily_reports) + 1
          IN /\ db' = [db EXCEPT !.daily_reports =
                         Append(@, ReportRow(id, today, mixed, topics,
                                             avgQualityScore))]
             /\ reportId' = id
             /\ pc' = "save_stories"
             /\ UNCHANGED thrown
  /\ UNCHANGED <<rules, discoveryVars, filterVars, mixVars, draftVars, calls, today>>

\* insertManyStories(stories, topics): one transaction
SaveInsertStories ==
  /\ pc = "save_stories"
  /\ db' = [db EXCEPT !.daily_stories = @ \o StoryRows(reportId, mixed, topics)]
  /\ pc' = "save_topics"
  /\ UNCHANGED <<rules, discoveryVars, filterVars, mixVars, draftVars, reportId, thrown,
                 calls, today>>

\* insertManyTopics(topics): one transaction, rolled back when a run throws
SaveInsertTopics ==
  /\ pc = "save_topics"
  /\ IF \E k \in 1..Len(topics) : ~Bindable(topics[k].summary)
     THEN /\ pc' = "failed"
          /\ thrown' = "TypeError"
          /\ UNCHANGED db
     ELSE /\ db' = [db EXCEPT !.daily_topics = @ \o TopicRows(reportId, topics)]
          /\ pc' = "save_trending"
          /\ UNCHANGED thrown
  /\ UNCHANGED <<rules, discoveryVars, filterVars, mixVars, draftVars, reportId, calls, today>>

\* this.updateTrendingTopics(date, topics): one transaction
SaveUpdateTrending ==
  /\ pc = "save_trending"
  /\ db' = [db EXCEPT !.trending_topics = @ \o TrendingRows(today, topics)]
  /\ pc' = "save_activity"
  /\ UNCHANGED <<rules, discoveryVars, filterVars, mixVars, draftVars, reportId, thrown,
                 calls, today>>

\* this.updateAccountActivity(date, stories): one transaction, then return
SaveUpdateActivity ==
  /\ pc = "save_activity"
  /\ db' = [db EXCEPT !.account_activity = @ \o ActivityRows(today, mixed)]
  /\ pc' = "saved"
  /\ UNCHANGED <<rules, discoveryVars, filterVars, mixVars, draftVars, reportId, thrown,
                 calls, today>>

\* The process dies between two committed statements of saveDailyReport.
Crash ==
  /\ pc \in {"save_stories", "save_topics", "save_trending", "save_activity"}
  /\ pc' = "crashed"
  /\ UNCHANGED <<rules, discoveryVars, filterVars, mixVars, draftVars, storeVars>>

\* A later saveDailyReport(stories, topics, avgQualityScore) on the same
\* database, the same day or the next.
NewCall ==
  /\ pc \in {"saved", "failed", "crashed"}
  /\ calls < MaxCalls
  /\ \E sts \in StoreStories, day \in {today, today + 1} :
       \E resp \in TopicResponses(Len(sts)) :
         LET d == generateDraft(sts, resp)
         IN /\ day <= MaxDay
            /\ mixed' = sts
            /\ topicOracle' = OracleAsked(sts, resp)
            /\ topics' = d.topics
            /\ avgQualityScore' = d.avgQualityScore
            /\ comparison' = NoComparison
            /\ today' = day
  /\ pc' = "save_report"
  /\ thrown' = NoError
  /\ calls' = calls + 1
  /\ UNCHANGED <<rules, discoveryVars, filterVars, stories, deduplicated, duplicatesRemoved,
                 ratio, stats, db, reportId>>

\* ContentMixer.mix applied to every modelled input list and policy
InitMixer ==
  /\ pc = "mix"
  /\ rules \in Policies
  /\ stories \in BaseInputs \cup BulkInputs
  /\ MixIdle /\ FilterIdle /\ DraftIdle /\ StoreIdle /\ DiscoveryIdle

NextMixer == Mix

SpecMixer == InitMixer /\ [][NextMixer]_vars

\* QualityFilter.filterAndScore with its batches and the settling of the
\* scoring calls as separate steps
InitFilter ==
  /\ pc = "batch"
  /\ rules \in PipelinePolicies
  /\ \E n \in 0..MaxFilterLen :
       /\ allStories = FilterInput(n)
       /\ oracle \in FilterOracles(n)
  /\ BatchIdle
  /\ stories = <<>>
  /\ MixIdle /\ DraftIdle /\ StoreIdle /\ DiscoveryIdle

NextFilter ==
  \/ StartBatch
  \/ Settle
  \/ CollectBatch
  \/ FilterSortReturn

SpecFilter == InitFilter /\ [][NextFilter]_vars

\* HistoryStorage.saveDailyReport called repeatedly on one database
InitStore ==
  /\ pc = "save_report"
  /\ rules = Policy(TRUE, 30, 70, TRUE, 75, 100)
  /\ FilterIdle
  /\ stories = <<>> /\ deduplicated = <<>> /\ duplicatesRemoved = 0
  /\ ratio = NoRatio /\ stats = NoStats
  /\ \E sts \in StoreStories :
       \E resp \in TopicResponses(Len(sts)) :
         LET d == generateDraft(sts, resp)
         IN /\ mixed = sts
            /\ topicOracle = OracleAsked(sts, resp)
            /\ topics = d.topics
            /\ avgQualityScore = d.avgQualityScore
            /\ comparison = NoComparison
  /\ db = EmptyDb /\ reportId = 0 /\ thrown = NoError /\ calls = 1 /\ today = 1
  /\ DiscoveryIdle

NextStore ==
  \/ SaveInsertReport
  \/ SaveInsertStories
  \/ SaveInsertTopics
  \/ SaveUpdateTrending
  \/ SaveUpdateActivity
  \/ Crash
  \/ NewCall

SpecStore == InitStore /\ [][NextStore]_vars

\* HistoricalComparison.compare called on the draft of one day over a
\* database of earlier runs
InitCompare ==
  /\ pc = "compare"
  /\ rules = Policy(TRUE, 30, 70, TRUE, 75, 100)
  /\ FilterIdle
  /\ stories = <<>> /\ deduplicated = <<>> /\ duplicatesRemoved = 0
  /\ ratio = NoRatio /\ stats = NoStats
  /\ \E sts \in CompareStoryLists :
       \E resp \in TopicResponses(Len(sts)) :
         /\ generateDraft(sts, resp).topics # <<>>
         /\ mixed = sts
         /\ topicOracle = resp
         /\ topics = generateDraft(sts, resp).topics
         /\ avgQualityScore = generateDraft(sts, resp).avgQualityScore
  /\ comparison = NoComparison
  /\ db \in CompareHistories(CompareDay)
  /\ reportId = 0 /\ thrown = NoError /\ calls = 0 /\ today = CompareDay
  /\ DiscoveryIdle

Compare ==
  /\ pc = "compare"
  /\ comparison' = compare(topics, mixed, avgQualityScore, db, today)
  /\ pc' = "compared"
  /\ UNCHANGED <<rules, discoveryVars, filterVars, mixVars, topicOracle, topics,
                 avgQualityScore, storeVars>>

NextCompare == Compare

SpecCompare == InitCompare /\ [][NextCompare]_vars

\* config/mixing-rules.json files that the constructors may find: the
\* documented one; accountsMin above accountsMax; account and search ranges
\* that admit no pair summing to 100; finalScoreMin above 100.
StartupPolicies ==
  {Policy(TRUE, 30, 70, TRUE, 75, 100),
   [Policy(TRUE, 30, 70, TRUE, 75, 100) EXCEPT !.dynamicRatio.accountsMin = 80],
   [Policy(TRUE, 30, 70, TRUE, 75, 100) EXCEPT !.dynamicRatio.searchMax = 20,
                                               !.dynamicRatio.searchMin = 10],
   [Policy(TRUE, 30, 70, TRUE, 75, 100) EXCEPT !.qualityThreshold.finalScoreMin = 150]}

\* One handleCron run under whatever policy the two constructors read:
\* new QualityFilter() and new ContentMixer() parse the file and keep it.
InitPolicy ==
  /\ pc = "filter"
  /\ rules \in StartupPolicies
  /\ allStories \in UNION {RawLists(n) : n \in 0..MaxBase}
  /\ oracle = <<>>
  /\ BatchIdle
  /\ stories = <<>>
  /\ MixIdle /\ DraftIdle /\ StoreIdle /\ DiscoveryIdle

NextPolicy ==
  \/ FilterAndScore
  \/ Mix
  \/ GenerateDraft
  \/ SaveInsertReport
  \/ SaveInsertStories
  \/ SaveInsertTopics
  \/ SaveUpdateTrending
  \/ SaveUpdateActivity

SpecPolicy == InitPolicy /\ [][NextPolicy]_vars

\* Databases a run may open: no earlier run, one run the day before, one run
\* earlier the same day.
StageHistories ==
  {EmptyDb, HistoryDay(EmptyDb, MaxDay - 1, SteadyDay),
   HistoryDay(EmptyDb, MaxDay, SteadyDay)}

\* One handleCron run statement by statement, over the database left by
\* earlier runs.
InitStages ==
  /\ pc = "filter"
  /\ rules \in PipelinePolicies
  /\ allStories \in UNION {RawLists(n) : n \in 0..MaxBase}
  /\ oracle = <<>>
  /\ BatchIdle
  /\ stories = <<>>
  /\ MixIdle /\ DraftIdle
  /\ db \in StageHistories
  /\ reportId = 0 /\ thrown = NoError /\ calls = 0 /\ today = MaxDay
  /\ DiscoveryIdle

\* ContentMixer.mix, lines 75-84: deduplication, when enabled
Deduplicate ==
  /\ pc = "mix"
  /\ LET ded == IF rules.deduplication.enabled THEN deduplicateStories(stories)
                ELSE [unique |-> stories, duplicates |-> 0]
     IN /\ deduplicated' = ded.unique
        /\ duplicatesRemoved' = ded.duplicates
  /\ pc' = "ratio"
  /\ UNCHANGED <<rules, discoveryVars, filterVars, stories, ratio, mixed, stats, draftVars,
                 storeVars>>

\* ContentMixer.mix, lines 86-90: the ratio of the deduplicated streams
ComputeRatio ==
  /\ pc = "ratio"
  /\ ratio' = calculateDynamicRatio(Filter(deduplicated, IsAccount),
                                    Filter(deduplicated, IsSearch), rules)
  /\ pc' = "select"
  /\ UNCHANGED <<rules, discoveryVars, filterVars, stories, deduplicated, duplicatesRemoved,
                 mixed, stats, draftVars, storeVars>>

\* ContentMixer.mix, lines 95-117: apply the ratio, sort, build the stats
SelectAndSort ==
  /\ pc = "select"
  /\ LET m == MixSelect([unique |-> deduplicated,
                         duplicates |-> duplicatesRemoved], ratio)
     IN mixed' = m.mixed /\ stats' = m.stats
  /\ pc' = "draft"
  /\ UNCHANGED <<rules, discoveryVars, filterVars, stories, deduplicated, duplicatesRemoved,
                 ratio, draftVars, storeVars>>

\* generateDraft, lines 39-66: the average score and the topic clustering;
\* without stories or without topics it returns before the comparison.
ClusterStories ==
  /\ pc = "draft"
  /\ \E resp \in TopicResponses(Len(mixed)) :
       LET d == generateDraft(mixed, resp)
       IN /\ topicOracle' = OracleAsked(mixed, resp)
          /\ topics' = d.topics
          /\ avgQualityScore' = d.avgQualityScore
          /\ pc' = IF d.topics = <<>> THEN "save_report" ELSE "history"
          /\ calls' = IF d.topics = <<>> THEN calls + 1 ELSE calls
  /\ UNCHANGED <<rules, discoveryVars, filterVars, mixVars, comparison, db, reportId, thrown,
                 today>>

\* HistoricalCompare with the database read after the run's own rows are
\* written.
HistoricalCompare_ReadsOwnRows ==
  /\ pc = "history"
  /\ comparison' = compare(topics, mixed, avgQualityScore,
                           saveDailyReport(db, today, mixed, topics,
                                           avgQualityScore), today)
  /\ pc' = "save_report"
  /\ calls' = calls + 1
  /\ UNCHANGED <<rules, discoveryVars, filterVars, mixVars, topicOracle, topics,
                 avgQualityScore, db, reportId, thrown, today>>

\* generateDraft, lines 84-95: await historicalComparison.compare(...), then
\* the return to handleCron, whose next statement is saveDailyReport
HistoricalCompare ==
  /\ pc = "history"
  /\ comparison' = compare(topics, mixed, avgQualityScore, db, today)
  /\ pc' = "save_report"
  /\ calls' = calls + 1
  /\ UNCHANGED <<rules, discoveryVars, filterVars, mixVars, topicOracle, topics,
                 avgQualityScore, db, reportId, thrown, today>>

NextStages ==
  \/ FilterAndScore
  \/ Deduplicate
  \/ ComputeRatio
  \/ SelectAndSort
  \/ ClusterStories
  \/ HistoricalCompare
  \/ SaveInsertReport
  \/ SaveInsertStories
  \/ SaveInsertTopics
  \/ SaveUpdateTrending
  \/ SaveUpdateActivity

SpecStages == InitStages /\ [][NextStages]_vars

\* Answers of a noisy quality oracle: within range, every sub-score above
\* 100, one below 0, one far above 100, one just above 100.  The double sums
\* of these answers are exact or round like the exact value.
NoisyAnswers ==
  {OracleAnswer(80, 80, 80, 80),
   OracleAnswer(120, 120, 120, 120),
   OracleAnswer(0 - 10, 90, 90, 90),
   OracleAnswer(150, 80, 80, 80),
   OracleAnswer(95, 105, 90, 90)}

\* QualityFilter.filterAndScore over the answers of a noisy oracle
InitNoisy ==
  /\ pc = "filter"
  /\ rules \in PipelinePolicies
  /\ allStories \in UNION {RawLists(n) : n \in 0..MaxBase}
  /\ oracle = <<>>
  /\ BatchIdle
  /\ stories = <<>>
  /\ MixIdle /\ DraftIdle /\ StoreIdle /\ DiscoveryIdle

ScoreNoisy ==
  /\ pc = "filter"
  /\ \E answers \in [1..Len(allStories) -> NoisyAnswers] :
       /\ oracle' = answers
       /\ stories' = filterAndScore(allStories, answers, rules)
  /\ pc' = "mix"
  /\ UNCHANGED <<rules, discoveryVars, allStories, batchStart, settled, scoredSoFar,
                 deduplicated, duplicatesRemoved, ratio, mixed, stats,
                 draftVars, storeVars>>

NextNoisy == ScoreNoisy

SpecNoisy == InitNoisy /\ [][NextNoisy]_vars

\* Scored stories as they reach mix in a run: those of tracked accounts
\* carry no source (scrapeSources sets none), search results carry "search",
\* and "account" is what mix filters on.
SelectKinds ==
  {HeadlineGPT5, HeadlineClaude} \X {"account", "search", Undefined} \X BaseScores

SelectList(c) ==
  [i \in 1..Len(c) |-> ScoredStory(c[i][1], i, 1, "u1", c[i][2], c[i][3])]

\* ContentMixer.mix on lists with and without a source
InitSelect ==
  /\ pc = "mix"
  /\ rules \in PipelinePolicies
  /\ \E n \in 0..MaxRaw :
       \E c \in [1..n -> SelectKinds] : stories = SelectList(c)
  /\ MixIdle /\ FilterIdle /\ DraftIdle /\ StoreIdle /\ DiscoveryIdle

NextSelect == Mix

SpecSelect == InitSelect /\ [][NextSelect]_vars

\* Usernames found in search results: "Ab", "ab", "@ab", "cd", and none
DiscoveryAuthors == {<<65, 98>>, <<97, 98>>, <<64, 97, 98>>, <<99, 100>>, <<>>}

\* Scored search results of one run: up to two groups of 2 or 3 stories, the
\* stories of a group having the same author
DiscoveryGroups == DiscoveryAuthors \X {2, 3}

DiscoveryStories(groups) ==
  LET total == IF Len(groups) = 0 THEN 0
               ELSE IF Len(groups) = 1 THEN groups[1][2]
               ELSE groups[1][2] + groups[2][2]
  IN [i \in 1..total |->
        ScoredStory(HeadlineClaude, i, 1,
                    IF i <= groups[1][2] THEN groups[1][1] ELSE groups[2][1],
                    "search", 80)]

\* Results of evaluateAccount: the call fails, an account that is not
\* relevant, and relevant ones below, between and above the thresholds
AccountAnswers ==
  {EvaluationFailure, Evaluation(FALSE, 95), Evaluation(TRUE, 70),
   Evaluation(TRUE, 85), Evaluation(TRUE, 95)}

\* sources.json before the first run: no account, or the tracked account "CD"
InitialSourceConfigs ==
  {EmptySourceConfig,
   [sources |-> <<AccountEntry(<<67, 68>>, 90)>>, candidates |-> <<>>]}

\* handleCron runs one after the other, each calling discoverAccounts on the
\* search stories that passed its quality filter
InitDiscovery ==
  /\ pc = "discover"
  /\ rules = Policy(TRUE, 30, 70, TRUE, 75, 100)
  /\ FilterIdle
  /\ \E n \in 0..2 : \E g \in [1..n -> DiscoveryGroups] :
       stories = DiscoveryStories(g)
  /\ MixIdle /\ DraftIdle /\ StoreIdle
  /\ sourceConfig \in InitialSourceConfigs
  /\ accountOracle = <<>>

\* handleCron step 6: discoverAccounts(scoredStories.filter(source === "search"))
DiscoverAccounts ==
  /\ pc = "discover"
  /\ \E answers \in [1..Len(AuthorsToEvaluate(sourceConfig,
                                                Filter(stories, IsSearch)))
                        -> AccountAnswers] :
       /\ accountOracle' = answers
       /\ sourceConfig' = discoverAccounts(sourceConfig,
                                           Filter(stories, IsSearch), answers)
  /\ pc' = "discovered"
  /\ UNCHANGED <<rules, filterVars, mixVars, draftVars, storeVars>>

\* The next run of handleCron reaches step 6 with its own scored stories.
NextRun ==
  /\ pc = "discovered"
  /\ \E n \in 0..2 : \E g \in [1..n -> DiscoveryGroups] :
       stories' = DiscoveryStories(g)
  /\ pc' = "discover"
  /\ UNCHANGED <<rules, filterVars, deduplicated, duplicatesRemoved, ratio,
                 mixed, stats, draftVars, storeVars, discoveryVars>>

NextDiscovery == DiscoverAccounts \/ NextRun

SpecDiscovery == InitDiscovery /\ [][NextDiscovery]_vars

\* One handleCron run from the collected stories to the saved report
Init ==
  /\ pc = "filter"
  /\ rules \in PipelinePolicies
  /\ allStories \in RawInputs
  /\ oracle = <<>>
  /\ BatchIdle
  /\ stories = <<>>
  /\ MixIdle /\ DraftIdle /\ StoreIdle /\ DiscoveryIdle

Next ==
  \/ FilterAndScore
  \/ Mix
  \/ GenerateDraft
  \/ SaveInsertReport
  \/ SaveInsertStories
  \/ SaveInsertTopics
  \/ SaveUpdateTrending
  \/ SaveUpdateActivity
  \/ Crash

Spec == Init /\ [][Next]_vars

\* The end of a handleCron run whose process is not killed, from
\* generateDraft(JSON.stringify(mixed)) to the return of saveDailyReport, on
\* an empty database.  The steps are consecutive statements of one async
\* function, so a step that can be taken is taken.
DraftRunLists == StoreStories \cup CompareStoryLists

InitDraftRun ==
  /\ pc = "draft"
  /\ rules = Policy(TRUE, 30, 70, TRUE, 75, 100)
  /\ FilterIdle
  /\ stories = <<>> /\ deduplicated = <<>> /\ duplicatesRemoved = 0
  /\ ratio = NoRatio /\ stats = NoStats
  /\ mixed \in DraftRunLists
  /\ DraftIdle /\ StoreIdle /\ DiscoveryIdle

NextDraftRun ==
  \/ GenerateDraft
  \/ SaveInsertReport
  \/ SaveInsertStories
  \/ SaveInsertTopics
  \/ SaveUpdateTrending
  \/ SaveUpdateActivity

SpecDraftRun == InitDraftRun /\ [][NextDraftRun]_vars /\ WF_vars(NextDraftRun)

----------------------------------------------------------------------------
(* Properties                                                               *)

Range(f) == {f[i] : i \in DOMAIN f}

FinalScore(st) == st.qualityScore.finalScore

\* ContentMixer.mix has returned
MixReturned == pc \notin {"filter", "mix"}

\* saveDailyReport is not running: it returned, threw, or the process died
SaveStopped == pc \in {"saved", "failed", "crashed"}

RowsWhere(table, P(_)) == Cardinality({k \in 1..Len(table) : P(table[k])})

\* Every derived row of report row r is in the store.
DayComplete(r) ==
  LET OfReport(row) == row.report_id = r.id
      OfDate(row) == row.date = r.date
      authors == {db.daily_stories[k].author :
                    k \in {j \in 1..Len(db.daily_stories) :
                             /\ db.daily_stories[j].report_id = r.id
                             /\ db.daily_stories[j].author # "null"}}
  IN /\ RowsWhere(db.daily_stories, OfReport) = r.total_stories
     /\ RowsWhere(db.daily_topics, OfReport) = r.topic_count
     /\ RowsWhere(db.trending_topics, OfDate) = r.topic_count
     /\ RowsWhere(db.account_activity, OfDate) = Cardinality(authors)

\* C1: whenever saveDailyReport has stopped (returned, thrown, or the process
\* crashed between two statements), every date that has a daily_reports row
\* also has all of its daily_stories, daily_topics, trending_topics and
\* account_activity rows.
C1_SaveAtomic ==
  SaveStopped =>
    \A k \in 1..Len(db.daily_reports) : DayComplete(db.daily_reports[k])

\* C2: a saveDailyReport call for a date that already has a daily_reports row
\* fails at its first statement with the constraint error thrown to the
\* caller, and leaves every table as it was.
C2_SecondSaveRejected ==
  [][(/\ pc = "save_report"
      /\ \E k \in 1..Len(db.daily_reports) : db.daily_reports[k].date = today)
     => (/\ pc' = "failed"
         /\ thrown' = "SQLITE_CONSTRAINT_UNIQUE"
         /\ db' = db)]_vars

\* C2 witness: a second call for a day whose first call saved a full report
\* with stories and topics has failed.
C2_Witness ==
  /\ pc = "failed"
  /\ thrown = "SQLITE_CONSTRAINT_UNIQUE"
  /\ calls >= 2
  /\ \E k \in 1..Len(db.daily_reports) :
       /\ db.daily_reports[k].date = today
       /\ db.daily_reports[k].total_stories >= 1
       /\ db.daily_reports[k].topic_count >= 1
       /\ DayComplete(db.daily_reports[k])

\* C3: after deduplication no two retained stories share a fingerprint, and
\* every input story that was removed has a retained story with the same
\* fingerprint and a finalScore at least as high.
C3_DedupInvariant ==
  (MixReturned /\ rules.deduplication.enabled) =>
    /\ \A i, j \in 1..Len(deduplicated) :
         i # j => generateFingerprint(deduplicated[i])
                    # generateFingerprint(deduplicated[j])
    /\ \A k \in 1..Len(stories) :
         stories[k] \notin Range(deduplicated) =>
           \E i \in 1..Len(deduplicated) :
             /\ generateFingerprint(deduplicated[i])
                  = generateFingerprint(stories[k])
             /\ FinalScore(deduplicated[i]) >= FinalScore(stories[k])

\* C3 witness: a later, higher-scoring story replaced an earlier duplicate
\* whose headline differs in case and punctuation.
C3_Witness ==
  /\ MixReturned /\ rules.deduplication.enabled
  /\ duplicatesRemoved = 1
  /\ Len(stories) = 2 /\ Len(deduplicated) = 1
  /\ stories[1].headline # stories[2].headline
  /\ deduplicated[1] = stories[2]
  /\ FinalScore(stories[2]) > FinalScore(stories[1])

\* C4: among the stories sharing a fingerprint and the highest finalScore the
\* retained one has the earliest date_posted.
C4_TieBreakEarliest ==
  (MixReturned /\ rules.deduplication.enabled) =>
    \A i \in 1..Len(deduplicated), k \in 1..Len(stories) :
      (/\ generateFingerprint(deduplicated[i]) = generateFingerprint(stories[k])
       /\ FinalScore(deduplicated[i]) = FinalScore(stories[k]))
      => deduplicated[i].date_posted <= stories[k].date_posted

\* C5: every permutation of the input list gives the same set of retained
\* stories and the same duplicate count.  Stated for the inputs on which the
\* documented tie-break fields decide (no two stories of one fingerprint tie
\* on both finalScore and date_posted), for lists of up to MaxBase + 1 stories.
C5_DedupOrderIndependent ==
  (/\ MixReturned /\ rules.deduplication.enabled
   /\ Len(stories) <= MaxBase + 1
   /\ \A i, j \in 1..Len(stories) :
        (/\ i # j
         /\ generateFingerprint(stories[i]) = generateFingerprint(stories[j])
         /\ FinalScore(stories[i]) = FinalScore(stories[j]))
        => stories[i].date_posted # stories[j].date_posted) =>
    \A perm \in Permutations(1..Len(stories)) :
      LET d == deduplicateStories([i \in 1..Len(stories) |-> stories[perm[i]]])
      IN /\ Range(d.unique) = Range(deduplicated)
         /\ d.duplicates = duplicatesRemoved

\* C6: the reported accountRatio lies within [accountsMin, accountsMax] and
\* accountRatio + searchRatio = 100, for every input and policy.
C6_RatioBounds ==
  MixReturned =>
    /\ rules.dynamicRatio.accountsMin <= stats.accountRatio
    /\ stats.accountRatio <= rules.dynamicRatio.accountsMax
    /\ stats.accountRatio + stats.searchRatio = 100

AccountCount(s) == Len(Filter(s, IsAccount))
SearchCount(s) == Len(Filter(s, IsSearch))

\* The target counts of the claim for a cap `cap`, and whether the output
\* holds exactly these counts whenever both streams hold at least their target.
TargetsMet(cap) ==
  LET targetTotal == Min2(Len(deduplicated), cap)
      targetTracked == MathRound(targetTotal * stats.accountRatio, 100)
      targetSearched == targetTotal - targetTracked
  IN (/\ AccountCount(deduplicated) >= targetTracked
      /\ SearchCount(deduplicated) >= targetSearched)
     => /\ stats.accountStories = targetTracked
        /\ stats.searchStories = targetSearched

C9_RatioFormula ==
  (MixReturned /\ rules.dynamicRatio.enabled) =>
    LET trackedMean == calculateAverageScore(Filter(deduplicated, IsAccount))
        searchedMean == calculateAverageScore(Filter(deduplicated, IsSearch))
        raw == MathRound(100 * trackedMean, trackedMean + searchedMean)
    IN /\ stats.accountRatio =
            IF trackedMean > 0 /\ searchedMean > 0
            THEN Max2(rules.dynamicRatio.accountsMin,
                      Min2(rules.dynamicRatio.accountsMax, raw))
            ELSE 50
       /\ stats.searchRatio = 100 - stats.accountRatio

\* C10: every story returned by filterAndScore has finalScore >=
\* finalScoreMin, and so has every story of the final mixed output.
C10_ThresholdInvariant ==
  /\ pc # "filter" =>
       \A k \in 1..Len(stories) :
         FinalScore(stories[k]) >= rules.qualityThreshold.finalScoreMin
  /\ MixReturned =>
       \A k \in 1..Len(mixed) :
         FinalScore(mixed[k]) >= rules.qualityThreshold.finalScoreMin

\* C10 witness: a scored story below the threshold was dropped while another
\* story reached the mixed output.
C10_Witness ==
  /\ MixReturned
  /\ Len(mixed) >= 1
  /\ \E i \in 1..Len(oracle) :
       /\ oracle[i].ok
       /\ IsNumber(WeightedFinalScore(oracle[i]))
       /\ WeightedFinalScore(oracle[i]) < rules.qualityThreshold.finalScoreMin

\* The scoring call of input story i succeeded: it returned an object with
\* the four sub-scores.
ScoringSucceeded(i) ==
  /\ oracle[i].ok
  /\ IsNumber(oracle[i].relevance) /\ IsNumber(oracle[i].quality)
  /\ IsNumber(oracle[i].novelty) /\ IsNumber(oracle[i].impact)

FilterReturned == pc = "mix" /\ batchStart >= Len(allStories)

\* C12: whatever the order in which the scoring calls of each batch settled,
\* the sequence returned by filterAndScore is the one determined by the input
\* list and the per-story answers alone.
C12_OrderIndependent ==
  FilterReturned => stories = filterAndScore(allStories, oracle, rules)

\* C12 witness: the calls of the last batch settled in an order other than
\* the input order, and two returned stories of equal finalScore exist.
C12_Witness ==
  /\ FilterReturned
  /\ \E k \in 1..(Len(settled) - 1) : settled[k] > settled[k + 1]
  /\ \E k \in 1..(Len(stories) - 1) :
       /\ FinalScore(stories[k]) = FinalScore(stories[k + 1])
       /\ stories[k].link > batchStart - batchSize
       /\ stories[k + 1].link > batchStart - batchSize

\* C13: the returned stories are in descending order of finalScore, and of
\* two returned stories with equal finalScore the one with the more recent
\* date_posted comes first.
C13_SortedTiesByDate ==
  FilterReturned =>
    \A k, l \in 1..Len(stories) :
      k < l =>
        /\ FinalScore(stories[k]) >= FinalScore(stories[l])
        /\ FinalScore(stories[k]) = FinalScore(stories[l])
             => stories[k].date_posted >= stories[l].date_posted

\* C14: every scored story carries the integer sub-scores of its own answer
\* and finalScore = 0.3 relevance + 0.3 quality + 0.2 novelty + 0.2 impact
\* rounded to the nearest integer (halves up, as Math.round).
C14_WeightedFinalScore ==
  \A k \in 1..Len(scoredSoFar) :
    LET q == scoredSoFar[k].qualityScore
        a == oracle[scoredSoFar[k].link]
    IN (IsNumber(q.relevance) /\ IsNumber(q.quality)
        /\ IsNumber(q.novelty) /\ IsNumber(q.impact)) =>
         /\ q.relevance = a.relevance /\ q.quality = a.quality
         /\ q.novelty = a.novelty /\ q.impact = a.impact
         /\ q.finalScore =
              MathRound(3 * q.relevance + 3 * q.quality
                        + 2 * q.novelty + 2 * q.impact, 10)

\* The draft of this run has been generated by grouping a non-empty list
DraftGrouped ==
  /\ pc \notin {"filter", "batch", "await", "mix", "draft"}
  /\ topicOracle.kind \in {"ok", "error"}

\* How often story `st` occurs in the stories of the output topics
TopicOccurrences(st) ==
  Cardinality({p \in {<<k, j>> : k \in 1..Len(topics), j \in 1..Len(mixed) + 3} :
                 /\ p[2] <= Len(topics[p[1]].stories)
                 /\ topics[p[1]].stories[p[2]] = st})

\* The assignments object handed to groupStoriesByTopic
GroupedAssignments ==
  IF topicOracle.kind = "error" THEN FallbackAssignments(mixed)
  ELSE topicOracle.value

\* Story number i (0-based) is assigned to a topic that the response declares
AssignedToTopic(i) ==
  \E k \in 1..Len(GroupedAssignments.assignments) :
    /\ parseInt(GroupedAssignments.assignments[k].key) = i
    /\ \E t \in 1..Len(GroupedAssignments.topics) :
         GroupedAssignments.topics[t].id = GroupedAssignments.assignments[k].topicId

\* C15: topic completeness of groupStoriesByTopic: every story that the
\* assignments give to a declared topic occurs exactly once over all output
\* topics, every output topic has storyCount >= 1, and storyCount equals the
\* length of the topic's stories.
C15_TopicCompleteness ==
  DraftGrouped =>
    /\ \A i \in 1..Len(mixed) :
         AssignedToTopic(i - 1) => TopicOccurrences(mixed[i]) = 1
    /\ \A k \in 1..Len(topics) :
         /\ topics[k].storyCount >= 1
         /\ topics[k].storyCount = Len(topics[k].stories)

\* The two count statements of C15 alone
C15_CountsOnly ==
  DraftGrouped =>
    \A k \in 1..Len(topics) :
      /\ topics[k].storyCount >= 1
      /\ topics[k].storyCount = Len(topics[k].stories)

\* C15 for responses whose keys are all array-index keys
C15_IndexKeysOnly ==
  (DraftGrouped /\ \A k \in 1..Len(GroupedAssignments.assignments) :
                     IsIndexKey(GroupedAssignments.assignments[k].key)) =>
    \A i \in 1..Len(mixed) :
      AssignedToTopic(i - 1) => TopicOccurrences(mixed[i]) = 1

\* The topic oracle has failed for a non-empty list: the call threw, or its
\* answer has no topics/assignments structure
TopicOracleFailed ==
  /\ pc \notin {"filter", "batch", "await", "mix", "draft"}
  /\ topicOracle.kind \in {"error", "malformed"}

\* C16: when the topic oracle fails, the draft has exactly one fallback topic
\* that holds every input story.
C16_FallbackTopic ==
  TopicOracleFailed =>
    /\ Len(topics) = 1
    /\ topics[1].stories = mixed
    /\ topics[1].storyCount = Len(mixed)

\* compare has returned
CompareDone == pc = "compared"

\* SUM(frequency) of the topic over the rows of the last `days` days
WindowFrequency(name, days) ==
  MapGetOr0(getTrendingTopics(db, today, days), name)

\* The label that the rule of C17 gives to a topic with count stories today
RuleLabel(count, f7, f30) ==
  IF f7 = 0 /\ f30 = 0 THEN "new"
  ELSE IF 7 * count > f7 THEN "hot"
  ELSE IF 7 * count < f7 THEN "cooling"
  ELSE "stable"

\* C17 (as amended): for every current topic analyzeTopicTrends returns
\* exactly one label: "new" when the topic has no recorded frequency in the
\* 7-day and in the 30-day window, otherwise "hot", "cooling" or "stable" as
\* today's storyCount is above, below or equal to the 7-day sum divided by 7.
\* The label is a function of today's count, the 7-day sum and whether the
\* 30-day sum is zero.
C17_TopicTrendRule ==
  CompareDone =>
    /\ Len(comparison.topicTrends) = Len(topics)
    /\ \A k \in 1..Len(topics) :
         /\ comparison.topicTrends[k].name = topics[k].name
         /\ comparison.topicTrends[k].historicalFrequency
              = WindowFrequency(topics[k].name, 7)
         /\ comparison.topicTrends[k].trend
              = RuleLabel(topics[k].storyCount,
                          WindowFrequency(topics[k].name, 7),
                          WindowFrequency(topics[k].name, 30))

\* A topic without rows in the 7-day window but with rows in the 30-day
\* window has been labelled "hot".
C17_Witness ==
  /\ CompareDone
  /\ \E k \in 1..Len(topics) :
       /\ WindowFrequency(topics[k].name, 7) = 0
       /\ WindowFrequency(topics[k].name, 30) > 0
       /\ comparison.topicTrends[k].trend = "hot"

\* C17 (as stated): the rule above, and the label is a function of today's
\* count and the 7-day sum only: two topics with the same count and the same
\* 7-day sum get the same label.
C17_SevenDayWindowOnly ==
  CompareDone =>
    /\ C17_TopicTrendRule
    /\ \A i, j \in 1..Len(comparison.topicTrends) :
         (/\ comparison.topicTrends[i].currentFrequency
               = comparison.topicTrends[j].currentFrequency
          /\ comparison.topicTrends[i].historicalFrequency
               = comparison.topicTrends[j].historicalFrequency)
         => comparison.topicTrends[i].trend = comparison.topicTrends[j].trend

\* Authors with a post today, and their number of posts
AuthorsToday == {mixed[k].author : k \in {i \in 1..Len(mixed) : HasAuthor(mixed[i])}}
PostsToday(a) == Cardinality({k \in 1..Len(mixed) : mixed[k].author = a})

\* SUM(tweet_count) of the account over the 7-day window
WindowTweets(a) == MapGetOr0(getAccountActivity(db, today, 7), a)

\* The account has no 7-day history or more than 1.5 times its daily average
AboveFiftyPercent(a) ==
  WindowTweets(a) = 0 \/ 14 * PostsToday(a) > 3 * WindowTweets(a)

\* The account has a 7-day history and more than 1.2 times its daily average
AboveTwentyPercent(a) ==
  WindowTweets(a) > 0 /\ 35 * PostsToday(a) > 6 * WindowTweets(a)

RisingAccounts ==
  {comparison.accountActivity.rising[k].account :
     k \in 1..Len(comparison.accountActivity.rising)}

\* The change of account a is at most that of account b (exact quotients;
\* an account without history has change 100, as 2 posts on a total of 7)
ChangeAtMost(a, b) ==
  LET ca == IF WindowTweets(a) = 0 THEN 2 ELSE PostsToday(a)
      ta == IF WindowTweets(a) = 0 THEN 7 ELSE WindowTweets(a)
      cb == IF WindowTweets(b) = 0 THEN 2 ELSE PostsToday(b)
      tb == IF WindowTweets(b) = 0 THEN 7 ELSE WindowTweets(b)
  IN ca * tb <= cb * ta

SevenDayMean == MeanQuality(getHistoricalData(db, today, 7), avgQualityScore)

\* a - b as an exact quotient, compared with the whole number n
DifferenceAbove(a, b, n) == a.num * b.den - b.num * a.den > n * a.den * b.den
DifferenceBelow(a, b, n) == a.num * b.den - b.num * a.den < n * a.den * b.den

\* C19: analyzeQualityTrends returns "rising" when today's mean is more than
\* 2 points above the 7-day mean, "declining" when it is more than 2 points
\* below, and "stable" inside the band, bounds included.
C19_QualityBand ==
  CompareDone =>
    comparison.qualityTrends.trend
      = IF DifferenceAbove(avgQualityScore, SevenDayMean, 2) THEN "rising"
        ELSE IF DifferenceBelow(avgQualityScore, SevenDayMean, 0 - 2)
        THEN "declining"
        ELSE "stable"

\* C19 away from the upper bound of the band
C19_OffUpperBound ==
  (CompareDone /\ (DifferenceAbove(avgQualityScore, SevenDayMean, 2)
                    \/ DifferenceBelow(avgQualityScore, SevenDayMean, 2))) =>
    comparison.qualityTrends.trend
      = IF DifferenceAbove(avgQualityScore, SevenDayMean, 2) THEN "rising"
        ELSE IF DifferenceBelow(avgQualityScore, SevenDayMean, 0 - 2)
        THEN "declining"
        ELSE "stable"

\* The run has reached generateDraft with no surviving story
ZeroSurvivors == pc = "draft" /\ mixed = <<>>

\* A history query made on `later` returns a row for today's date with zero
\* stories and zero topics
ZeroRowReturned(later) ==
  \E k \in 1..Len(getHistoricalData(db, later, 7)) :
    /\ getHistoricalData(db, later, 7)[k].date = today
    /\ getHistoricalData(db, later, 7)[k].total_stories = 0
    /\ getHistoricalData(db, later, 7)[k].topic_count = 0

\* C20: a run that ends with zero surviving stories completes without an
\* error and records a daily_reports row for its date with zero story and
\* topic counts, which the history query of a run on the same or on any of
\* the next 7 days returns.
C20_ZeroRunRecorded ==
  ZeroSurvivors ~>
    (/\ pc = "saved" /\ thrown = NoError
     /\ \A later \in today..(today + 7) : ZeroRowReturned(later))

\* A run without surviving stories has returned from saveDailyReport
C20_Witness ==
  /\ pc = "saved" /\ mixed = <<>> /\ thrown = NoError
  /\ ZeroRowReturned(today + 1)

\* C20 over the whole run, killed or not: a run without surviving stories
\* never fails, and from the first statement of saveDailyReport on its row
\* is returned by the history query.
C20_ZeroRowFromFirstStatement ==
  (mixed = <<>> /\ pc \in {"save_stories", "save_topics", "save_trending",
                             "save_activity", "saved", "crashed", "failed"}) =>
    /\ pc # "failed"
    /\ thrown = NoError
    /\ ZeroRowReturned(today + 1)

\* The policy admits a ratio pair summing to 100 within its ranges, and its
\* finalScoreMin lies in [0, 100]
ValidPolicy(p) ==
  /\ p.dynamicRatio.accountsMin <= p.dynamicRatio.accountsMax
  /\ p.dynamicRatio.searchMin <= p.dynamicRatio.searchMax
  /\ p.dynamicRatio.accountsMin + p.dynamicRatio.searchMin <= 100
  /\ p.dynamicRatio.accountsMax + p.dynamicRatio.searchMax >= 100
  /\ p.qualityThreshold.finalScoreMin >= 0
  /\ p.qualityThreshold.finalScoreMin <= 100

\* C21: under a policy whose ranges admit no ratio pair summing to 100 or
\* whose finalScoreMin is outside [0, 100], no scoring, mixing or persistence
\* step executes: the run never leaves its starting point.
C21_InvalidPolicyRejected ==
  ~ValidPolicy(rules) => (pc = "filter" /\ db = EmptyDb)

\* The two-story input of Scenario A: the same headline up to case and
\* punctuation, one story scoring 80 and the other 65, in either order.
ScenarioA ==
  /\ Len(stories) = 2
  /\ {stories[1].headline, stories[2].headline}
       = {HeadlineGPT5, HeadlineGpt5Bang}
  /\ {FinalScore(stories[1]), FinalScore(stories[2])} = {65, 80}

\* C22: the reported number of duplicates is the input length minus the
\* retained length; of the two Scenario A stories exactly the one scoring 80
\* is retained and the count is 1.
C22_DuplicateCount ==
  (MixReturned /\ rules.deduplication.enabled) =>
    /\ duplicatesRemoved = Len(stories) - Len(deduplicated)
    /\ stats.duplicatesRemoved = duplicatesRemoved
    /\ ScenarioA =>
         /\ Len(deduplicated) = 1
         /\ deduplicated[1] \in Range(stories)
         /\ FinalScore(deduplicated[1]) = 80
         /\ duplicatesRemoved = 1

\* C22 witness: Scenario A has been deduplicated.
C22_Witness ==
  /\ MixReturned /\ rules.deduplication.enabled
  /\ ScenarioA
  /\ Len(deduplicated) = 1
  /\ stats.duplicatesRemoved = 1

\* The statements of one handleCron run in program order
StageOrder ==
  <<"filter", "mix", "ratio", "select", "draft", "history", "save_report",
    "save_stories", "save_topics", "save_trending", "save_activity", "saved",
    "failed">>

StageIndex(p) == CHOOSE i \in 1..Len(StageOrder) : StageOrder[i] = p

InScoreRange(x) == IsNumber(x) => (x >= 0 /\ x <= 100)

\* C24: whatever sub-scores the quality oracle returns, the sub-scores and
\* the finalScore stored with a scored story lie in [0, 100].
C24_SubScoresClamped ==
  pc = "mix" =>
    \A k \in 1..Len(stories) :
      /\ InScoreRange(stories[k].qualityScore.relevance)
      /\ InScoreRange(stories[k].qualityScore.quality)
      /\ InScoreRange(stories[k].qualityScore.novelty)
      /\ InScoreRange(stories[k].qualityScore.impact)
      /\ InScoreRange(stories[k].qualityScore.finalScore)

\* The target counts applyRatio computed for the deduplicated list and ratio
TargetTotal == Min2(Len(deduplicated), MaxFinalStories)
TargetAccounts == MathRound(TargetTotal * ratio.accountRatio, 100)
TargetSearch == TargetTotal - TargetAccounts

\* C25: no shortfall redistribution: each stream contributes all of its
\* stories when it holds fewer than its target and exactly its target
\* otherwise, so neither stream's output exceeds its own target.
C25_NoRedistribution ==
  MixReturned =>
    /\ Len(Filter(mixed, IsAccount))
         = Min2(Len(Filter(deduplicated, IsAccount)), TargetAccounts)
    /\ Len(Filter(mixed, IsSearch))
         = Min2(Len(Filter(deduplicated, IsSearch)), TargetSearch)
    /\ Len(Filter(mixed, IsAccount)) <= TargetAccounts
    /\ Len(Filter(mixed, IsSearch)) <= TargetSearch

\* C25 witness: the account stream is shorter than its target while the
\* search stream holds more than its own, and the output stays below the
\* target total.
C25_Witness ==
  /\ MixReturned
  /\ Len(Filter(deduplicated, IsAccount)) < TargetAccounts
  /\ Len(Filter(deduplicated, IsSearch)) > TargetSearch
  /\ Len(Filter(mixed, IsSearch)) = TargetSearch
  /\ Len(mixed) < TargetTotal

\* No row of the database falls into a window that compare reads
EmptyHistory ==
  /\ getHistoricalData(db, today, 30) = <<>>
  /\ \A k \in 1..Len(db.trending_topics) :
       ~InWindow(db.trending_topics[k], today, 30)
  /\ \A k \in 1..Len(db.account_activity) :
       ~InWindow(db.account_activity[k], today, 7)

\* Every current topic is "new" and the quality trend is "stable"
NewAndStable ==
  /\ Len(comparison.topicTrends) = Len(topics)
  /\ \A k \in 1..Len(topics) : comparison.topicTrends[k].trend = "new"
  /\ comparison.trendingTopics.new = NamesOf(topics)
  /\ comparison.qualityTrends.trend = "stable"

InRangeAssignments(id) ==
  {k \in 1..Len(GroupedAssignments.assignments) :
     /\ GroupedAssignments.assignments[k].topicId = id
     /\ parseInt(GroupedAssignments.assignments[k].key) >= 0
     /\ parseInt(GroupedAssignments.assignments[k].key) < Len(mixed)}

OutputTopicIds == {topics[k].id : k \in 1..Len(topics)}

\* C27: an assignment whose index is outside 0..Len(stories)-1 adds no story
\* (each output topic holds exactly the stories of its in-range assignments),
\* a declared topic is in the output exactly when it has at least one such
\* assignment, and the output is in non-increasing storyCount.
C27_AssignmentValidation ==
  DraftGrouped =>
    /\ \A k \in 1..Len(topics) :
         /\ topics[k].storyCount
              = Cardinality(InRangeAssignments(topics[k].id))
         /\ Len(topics[k].stories) = topics[k].storyCount
         /\ topics[k].storyCount > 0
         /\ \A j \in 1..Len(topics[k].stories) :
              \E a \in InRangeAssignments(topics[k].id) :
                topics[k].stories[j]
                  = mixed[parseInt(GroupedAssignments.assignments[a].key) + 1]
    /\ \A t \in 1..Len(GroupedAssignments.topics) :
         GroupedAssignments.topics[t].id \in OutputTopicIds
           <=> InRangeAssignments(GroupedAssignments.topics[t].id) # {}
    /\ \A k \in 1..(Len(topics) - 1) :
         topics[k].storyCount >= topics[k + 1].storyCount

\* C27 witness: the response assigned a story index past the end of the list
\* to a declared topic, which is absent from the output while another topic
\* is present.
C27_Witness ==
  /\ DraftGrouped
  /\ topics # <<>>
  /\ \E k \in 1..Len(GroupedAssignments.assignments) :
       /\ parseInt(GroupedAssignments.assignments[k].key) >= Len(mixed)
       /\ \E t \in 1..Len(GroupedAssignments.topics) :
            GroupedAssignments.topics[t].id
              = GroupedAssignments.assignments[k].topicId
       /\ GroupedAssignments.assignments[k].topicId \notin OutputTopicIds

\* The scoring calls started and not yet settled
InFlight ==
  IF pc = "await"
  THEN BatchPositions(allStories, batchStart) \ Range(settled)
  ELSE {}

\* C28: at every moment of filterAndScore at most 5 scoring calls are in
\* flight, and when the calls of a batch are started every call of the batch
\* before it has settled.
C28_BoundedConcurrency ==
  /\ [](Cardinality(InFlight) <= 5)
  /\ [][(pc = "batch" /\ pc' = "await" /\ batchStart > 0) =>
          /\ Range(settled) = (batchStart - 5 + 1)..batchStart
          /\ Len(settled) = 5]_vars

\* C28 witness: calls of the second batch are in flight, the five of the
\* first batch having settled.
C28_Witness ==
  /\ pc = "await"
  /\ batchStart = 5
  /\ InFlight # {}
  /\ Len(scoredSoFar) > 0

\* How often story st occurs in the list s
Occurrences(s, st) == Cardinality({k \in 1..Len(s) : s[k] = st})

\* C29: mix only selects: every story of its output is an input story and
\* occurs at most as often as in the input, the output is in non-increasing
\* finalScore order, and stats.totalStories is the output length and the sum
\* of stats.accountStories and stats.searchStories.
C29_MixOnlySelects ==
  MixReturned =>
    /\ \A k \in 1..Len(mixed) :
         /\ mixed[k] \in Range(stories)
         /\ Occurrences(mixed, mixed[k]) <= Occurrences(stories, mixed[k])
    /\ \A k \in 1..(Len(mixed) - 1) :
         FinalScore(mixed[k]) >= FinalScore(mixed[k + 1])
    /\ stats.totalStories = Len(mixed)
    /\ stats.totalStories = stats.accountStories + stats.searchStories

\* C29 witness: from an input holding a story without source, mix returned
\* fewer stories than it was given, a later input story ahead of an earlier
\* one.
C29_Witness ==
  /\ MixReturned
  /\ \E k \in 1..Len(stories) : stories[k].source = Undefined
  /\ Len(mixed) = 2 /\ Len(deduplicated) = 3
  /\ mixed[1].link > mixed[2].link
  /\ FinalScore(mixed[1]) > FinalScore(mixed[2])

\* No username, compared without case, is twice in sources, twice in
\* candidates, or in both lists
NoDuplicateAccounts ==
  LET all == sourceConfig.sources \o sourceConfig.candidates
  IN \A i, j \in 1..Len(all) :
       i # j => ToLowerCase(all[i].username) # ToLowerCase(all[j].username)

\* The accounts that the step just taken added to the list `field`
AddedTo(old, new) ==
  {new[k].username : k \in (Len(old) + 1)..Len(new)}

\* The step of discoverAccounts added the evaluated authors by their scores:
\* to sources from autoAddThreshold, to candidates from minQualityScore to
\* below autoAddThreshold, and no author with fewer than minContentCount
\* search stories.
AddedByScore ==
  LET searchStories == Filter(stories, IsSearch)
      authors == AuthorsToEvaluate(sourceConfig, searchStories)
      counts == extractAuthors(searchStories)
      newSources == AddedTo(sourceConfig.sources, sourceConfig'.sources)
      newCandidates == AddedTo(sourceConfig.candidates, sourceConfig'.candidates)
  IN /\ \A k \in 1..Len(authors) :
          /\ authors[k].username \in newSources
               <=> (/\ Evaluated(accountOracle'[k])
                    /\ accountOracle'[k].qualityScore
                         >= discoveryRules.autoAddThreshold)
          /\ authors[k].username \in newCandidates
               <=> (/\ Evaluated(accountOracle'[k])
                    /\ accountOracle'[k].qualityScore
                         < discoveryRules.autoAddThreshold)
     /\ \A u \in newSources \cup newCandidates :
          \E k \in 1..Len(counts) :
            /\ counts[k].username = u
            /\ counts[k].count >= discoveryRules.minContentCount

\* C30: over any sequence of discoverAccounts runs from a sources file
\* without duplicates no username (compared without case) is twice in
\* sources, twice in candidates or in both, and each run adds the evaluated
\* authors by their scores and content counts.
C30_DiscoveryInvariant ==
  /\ []NoDuplicateAccounts
  /\ [][(pc = "discover" /\ pc' = "discovered") => AddedByScore]_vars

\* The score and content-count rules of C30 alone
C30_AddedByScoreOnly ==
  [][(pc = "discover" /\ pc' = "discovered") => AddedByScore]_vars

============================================================================
